---- MODULE Spec2Model ----
(***************************************************************************)
(* Device firmware of the Barn-Lights LED controller: UDP frame receiver,  *)
(* LED driver, wakeup effect, status heartbeat, activity LED and the main  *)
(* loop, over the native (test) HAL extended with a DMA-busy flag.          *)
(*                                                                         *)
(* uint32_t values (frame ids, millisecond clocks) are represented by the  *)
(* signed 32-bit integer with the same bit pattern, so 0xFFFFFFFF is -1    *)
(* and 0x80000000 is -2147483648; all arithmetic on them goes through      *)
(* Sub32/Add32, which wrap exactly as the unsigned C arithmetic does.      *)
(***************************************************************************)
EXTENDS Integers, Sequences, FiniteSets, TLC

(***************************************************************************)
(* Build-time configuration (config_autogen.h): two runs, of 2 and 1 LEDs. *)
(***************************************************************************)
RUN_COUNT == 2

LED_COUNT == <<2, 1>>

MAX_LEDS == 2

EXPECTED_MASK == (2 ^ RUN_COUNT) - 1

NUM_STRIPS == 8

NUM_SLOTS == 2

HEADER_SIZE == 6

NULL == -1

(***************************************************************************)
(* 32-bit unsigned arithmetic on the signed representation.                *)
(***************************************************************************)
Wrap16(x) == ((x + 32768) % 65536) - 32768

Sub32(a, b) ==
    LET al == a % 65536
        ah == a \div 65536
        bl == b % 65536
        bh == b \div 65536
        borrow == IF al < bl THEN 1 ELSE 0
        dl == (al - bl) % 65536
        dh == Wrap16(ah - bh - borrow)
    IN  dh * 65536 + dl

Add32(a, b) ==
    LET al == a % 65536
        ah == a \div 65536
        bl == b % 65536
        bh == b \div 65536
        carry == IF al + bl >= 65536 THEN 1 ELSE 0
        sl == (al + bl) % 65536
        sh == Wrap16(ah + bh + carry)
    IN  sh * 65536 + sl

\* unsigned comparison  a >= k  for a small non-negative constant k
GeU32(a, k) == a < 0 \/ a >= k

\* bitwise helpers on uint8_t masks
BitSet(mask, i) == (mask \div (2 ^ i)) % 2 = 1

\* mask |= (1 << run_index) setting the bit above
OrBit_BitAbove(mask, i) ==
    IF BitSet(mask, i + 1) THEN mask ELSE (mask + 2 ^ (i + 1)) % 256

OrBit(mask, i) == IF BitSet(mask, i) THEN mask ELSE (mask + 2 ^ i) % 256

(***************************************************************************)
(* receiver.cpp: pure helpers                                              *)
(***************************************************************************)
RECURSIVE SumLeds(_)
SumLeds(n) == IF n = 0 THEN 0 ELSE SumLeds(n - 1) + LED_COUNT[n] * 3

calculate_frame_size == SumLeds(RUN_COUNT)

\* mutant: the offset counts LEDs, not bytes
run_offset_InLeds(run_index) == SumLeds(run_index) \div 3

run_offset(run_index) == SumLeds(run_index)

\* a plain unsigned comparison a > b, without the modular difference
newer_Unsigned(a, b) ==
    \/ a < 0 /\ b >= 0
    \/ (a < 0 <=> b < 0) /\ a > b

newer(a, b) == Sub32(a, b) > 0

read_u16_be(data, off) == data[off + 1] * 256 + data[off + 2]

read_u32_be(data, off) ==
    (IF data[off + 1] >= 128 THEN data[off + 1] - 256 ELSE data[off + 1]) * 16777216
    + data[off + 2] * 65536 + data[off + 3] * 256 + data[off + 4]

Zeros(n) == [k \in 1..n |-> 0]

\* memcpy(dst + offset, src, n)
MemCpy(dst, offset, src, n) ==
    [k \in 1..Len(dst) |-> IF k > offset /\ k <= offset + n THEN src[k - offset] ELSE dst[k]]

(***************************************************************************)
(* receiver.cpp: the receiver's state as one value.  A slot's rgb_data is  *)
(* its frame_size bytes of frame_buffer; complete_frame is the index of    *)
(* the slot whose rgb_data it points to, or NULL.                          *)
(***************************************************************************)
ZeroStats ==
    [rx_frames |-> 0, complete_frames |-> 0, applied_frames |-> 0,
     drops_len |-> 0, drops_stale |-> 0]

EmptySlot == [frame_id |-> 0, received_mask |-> 0, in_use |-> FALSE,
              rgb_data |-> Zeros(calculate_frame_size)]

receiver_init ==
    [slots |-> [i \in 0..(NUM_SLOTS - 1) |-> EmptySlot],
     current_session_id |-> 0,
     session_initialized |-> FALSE,
     last_applied_frame_id |-> 0,
     complete_frame |-> NULL,
     stats |-> ZeroStats,
     error_buffer |-> <<>>,
     has_error |-> FALSE]

\* receiver_init called again that leaves last_applied_frame_id as it is
receiver_init_again_KeepApplied(r) ==
    [r EXCEPT !.slots = [i \in 0..(NUM_SLOTS - 1) |-> EmptySlot],
              !.current_session_id = 0,
              !.session_initialized = FALSE,
              !.complete_frame = NULL,
              !.stats = ZeroStats,
              !.has_error = FALSE]

\* receiver_init called on a receiver in state r: every assignment of lines
\* 77-106; the frame buffer is allocated anew and zeroed, error_buffer is
\* not written
receiver_init_again(r) ==
    [r EXCEPT !.slots = [i \in 0..(NUM_SLOTS - 1) |-> EmptySlot],
              !.current_session_id = 0,
              !.session_initialized = FALSE,
              !.last_applied_frame_id = 0,
              !.complete_frame = NULL,
              !.stats = ZeroStats,
              !.has_error = FALSE]

\* mutant: clears the bookkeeping of the first slot only
clear_slots_FirstOnly(slots) ==
    [i \in DOMAIN slots |-> IF i = 0 THEN EmptySlot ELSE slots[i]]

clear_slots(slots) == [i \in DOMAIN slots |-> EmptySlot]

AllocSlot(slots, i, frame_id) ==
    [slots EXCEPT ![i] = [frame_id |-> frame_id, received_mask |-> 0,
                          in_use |-> TRUE,
                          rgb_data |-> Zeros(calculate_frame_size)]]

\* the eviction scan never moving off its starting slot
OldestFrom_KeepFirst(slots, oldest_idx, i) == oldest_idx

\* the eviction scan over slots 1..NUM_SLOTS-1, starting from oldest_idx = 0
RECURSIVE OldestFrom(_, _, _)
OldestFrom(slots, oldest_idx, i) ==
    IF i >= NUM_SLOTS THEN oldest_idx
    ELSE IF newer(slots[oldest_idx].frame_id, slots[i].frame_id)
         THEN OldestFrom(slots, i, i + 1)
         ELSE OldestFrom(slots, oldest_idx, i + 1)

\* find_or_allocate_slot without the search for the frame's existing slot
find_or_allocate_slot_NoLookup(slots, frame_id) ==
    LET empty    == {i \in DOMAIN slots : ~slots[i].in_use}
        Lowest(S) == CHOOSE i \in S : \A j \in S : i <= j
    IN  IF empty # {}
        THEN [idx |-> Lowest(empty), slots |-> AllocSlot(slots, Lowest(empty), frame_id)]
        ELSE LET oldest_idx == OldestFrom(slots, 0, 1)
             IN  [idx |-> oldest_idx, slots |-> AllocSlot(slots, oldest_idx, frame_id)]

\* returns the chosen slot index and the slot table after the choice
find_or_allocate_slot(slots, frame_id) ==
    LET existing == {i \in DOMAIN slots : slots[i].in_use /\ slots[i].frame_id = frame_id}
        empty    == {i \in DOMAIN slots : ~slots[i].in_use}
        Lowest(S) == CHOOSE i \in S : \A j \in S : i <= j
    IN  IF existing # {}
        THEN [idx |-> Lowest(existing), slots |-> slots]
        ELSE IF empty # {}
        THEN [idx |-> Lowest(empty), slots |-> AllocSlot(slots, Lowest(empty), frame_id)]
        ELSE LET oldest_idx == OldestFrom(slots, 0, 1)
             IN  [idx |-> oldest_idx, slots |-> AllocSlot(slots, oldest_idx, frame_id)]

\* mutant: accepts any packet at least as long as the run's packet
ValidPacket_AtLeast(run_index, data) ==
    /\ run_index < RUN_COUNT
    /\ Len(data) >= HEADER_SIZE + LED_COUNT[run_index + 1] * 3

\* lines 154-165: the run index and length validation
ValidPacket(run_index, data) ==
    /\ run_index < RUN_COUNT
    /\ Len(data) = HEADER_SIZE + LED_COUNT[run_index + 1] * 3

\* line 173: the session-change condition
SessionChanges(r, session_id) ==
    ~r.session_initialized \/ session_id # r.current_session_id

\* mutant: a session change that keeps last_applied_frame_id
HandleSessionChange_KeepLast(r, now, session_id) ==
    IF SessionChanges(r, session_id)
    THEN [r EXCEPT !.error_buffer = <<now, r.current_session_id, session_id>>,
                   !.has_error = TRUE,
                   !.current_session_id = session_id,
                   !.session_initialized = TRUE,
                   !.slots = clear_slots(r.slots)]
    ELSE r

\* lines 172-183: the session-change branch
HandleSessionChange(r, now, session_id) ==
    IF SessionChanges(r, session_id)
    THEN [r EXCEPT !.error_buffer = <<now, r.current_session_id, session_id>>,
                   !.has_error = TRUE,
                   !.current_session_id = session_id,
                   !.session_initialized = TRUE,
                   !.last_applied_frame_id = 0,
                   !.slots = clear_slots(r.slots)]
    ELSE r

\* mutant: only strictly older ids are stale
IsStale_OlderOnly(r, frame_id) ==
    r.last_applied_frame_id # 0 /\ newer(r.last_applied_frame_id, frame_id)

\* line 186: the staleness gate
IsStale(r, frame_id) ==
    r.last_applied_frame_id # 0 /\ ~newer(frame_id, r.last_applied_frame_id)

\* the newness check without the last_applied_frame_id == 0 case
PublishAllowed_NewerOnly(r, frame_id) == newer(frame_id, r.last_applied_frame_id)

\* line 206: the newness check at completion
PublishAllowed(r, frame_id) ==
    r.last_applied_frame_id = 0 \/ newer(frame_id, r.last_applied_frame_id)

\* MergeRun leaving a completed slot in use with its full mask
MergeRun_KeepInUse(r, run_index, frame_id, rgb) ==
    LET sel    == find_or_allocate_slot(r.slots, frame_id)
        idx    == sel.idx
        offset == run_offset(run_index)
        copied == MemCpy(sel.slots[idx].rgb_data, offset, rgb, LED_COUNT[run_index + 1] * 3)
        mask   == OrBit(sel.slots[idx].received_mask, run_index)
        merged == [sel.slots EXCEPT ![idx].rgb_data = copied, ![idx].received_mask = mask]
    IN  IF mask = EXPECTED_MASK
        THEN LET cnt == [r.stats EXCEPT !.complete_frames = @ + 1]
             IN  IF PublishAllowed(r, frame_id)
                 THEN [r EXCEPT !.slots = merged, !.stats = cnt,
                                !.complete_frame = idx,
                                !.last_applied_frame_id = frame_id]
                 ELSE [r EXCEPT !.slots = merged, !.stats = cnt]
        ELSE [r EXCEPT !.slots = merged]

\* lines 191-215: slot selection, copy, mask update and completion
MergeRun(r, run_index, frame_id, rgb) ==
    LET sel    == find_or_allocate_slot(r.slots, frame_id)
        idx    == sel.idx
        offset == run_offset(run_index)
        copied == MemCpy(sel.slots[idx].rgb_data, offset, rgb, LED_COUNT[run_index + 1] * 3)
        mask   == OrBit(sel.slots[idx].received_mask, run_index)
        merged == [sel.slots EXCEPT ![idx].rgb_data = copied, ![idx].received_mask = mask]
    IN  IF mask = EXPECTED_MASK
        THEN LET done == [merged EXCEPT ![idx].in_use = FALSE, ![idx].received_mask = 0]
                 cnt  == [r.stats EXCEPT !.complete_frames = @ + 1]
             IN  IF PublishAllowed(r, frame_id)
                 THEN [r EXCEPT !.slots = done, !.stats = cnt,
                                !.complete_frame = idx,
                                !.last_applied_frame_id = frame_id]
                 ELSE [r EXCEPT !.slots = done, !.stats = cnt]
        ELSE [r EXCEPT !.slots = merged]

\* receiver_handle_packet counting a stale packet without returning
receiver_handle_packet_StaleFallsThrough(r, now, run_index, data) ==
    LET r0 == [r EXCEPT !.stats.rx_frames = @ + 1]
    IN  IF ~ValidPacket(run_index, data)
        THEN [r0 EXCEPT !.stats.drops_len = @ + 1]
        ELSE LET session_id == read_u16_be(data, 0)
                 frame_id   == read_u32_be(data, 2)
                 rgb        == SubSeq(data, HEADER_SIZE + 1, Len(data))
                 r1         == HandleSessionChange(r0, now, session_id)
             IN  IF IsStale(r1, frame_id)
                 THEN MergeRun([r1 EXCEPT !.stats.drops_stale = @ + 1],
                               run_index, frame_id, rgb)
                 ELSE MergeRun(r1, run_index, frame_id, rgb)

receiver_handle_packet(r, now, run_index, data) ==
    LET r0 == [r EXCEPT !.stats.rx_frames = @ + 1]
    IN  IF ~ValidPacket(run_index, data)
        THEN [r0 EXCEPT !.stats.drops_len = @ + 1]
        ELSE LET session_id == read_u16_be(data, 0)
                 frame_id   == read_u32_be(data, 2)
                 rgb        == SubSeq(data, HEADER_SIZE + 1, Len(data))
                 r1         == HandleSessionChange(r0, now, session_id)
             IN  IF IsStale(r1, frame_id)
                 THEN [r1 EXCEPT !.stats.drops_stale = @ + 1]
                 ELSE MergeRun(r1, run_index, frame_id, rgb)

\* the value returned by receiver_get_complete_frame (a slot index or NULL)
receiver_get_complete_frame_result(r) == r.complete_frame

receiver_get_complete_frame_Peek(r) ==
    [r EXCEPT !.stats.applied_frames = IF r.complete_frame # NULL THEN @ + 1 ELSE @]

receiver_get_complete_frame(r) ==
    [r EXCEPT !.complete_frame = NULL,
              !.stats.applied_frames = IF r.complete_frame # NULL THEN @ + 1 ELSE @]

\* the ReceiverStats value receiver_get_and_reset_stats returns
receiver_get_and_reset_stats_result(r) == r.stats

receiver_get_and_reset_stats_KeepRx(r) ==
    [r EXCEPT !.stats = [ZeroStats EXCEPT !.rx_frames = r.stats.rx_frames]]

receiver_get_and_reset_stats(r) == [r EXCEPT !.stats = ZeroStats]

receiver_get_last_error(r) == IF r.has_error THEN r.error_buffer ELSE <<>>

receiver_clear_last_error(r) == [r EXCEPT !.has_error = FALSE]

(***************************************************************************)
(* hal_native.cpp / hal_teensy.cpp: LED buffer                             *)
(***************************************************************************)
BLACK == <<0, 0, 0>>

leds_init == [p \in 0..(NUM_STRIPS * MAX_LEDS - 1) |-> BLACK]

leds_set_pixel(leds, strip, index, rgb) ==
    IF strip < 0 \/ strip >= NUM_STRIPS \/ index < 0 \/ index >= MAX_LEDS
    THEN leds
    ELSE [leds EXCEPT ![strip * MAX_LEDS + index] = rgb]

(***************************************************************************)
(* test_receiver.cpp build_packet: the sender's encoding of a packet       *)
(***************************************************************************)
build_packet(session_id, frame_id, rgb) ==
    << (session_id \div 256) % 256, session_id % 256,
       (frame_id \div 16777216) % 256, (frame_id \div 65536) % 256,
       (frame_id \div 256) % 256, frame_id % 256 >> \o rgb

(***************************************************************************)
(* led_driver.cpp                                                          *)
(***************************************************************************)
STARTUP_BLACKOUT_MS == 1000

\* set_pixel(strip, i, rgb) for i in 0..n-1
RECURSIVE FillStrip(_, _, _, _)
FillStrip(leds, strip, n, rgb) ==
    IF n = 0 THEN leds
    ELSE leds_set_pixel(FillStrip(leds, strip, n - 1, rgb), strip, n - 1, rgb)

\* the pixel the loops of driver_show_frame write at buffer position p
driver_show_frame(frame_data) ==
    [p \in 0..(NUM_STRIPS * MAX_LEDS - 1) |->
        LET run == p \div MAX_LEDS
            i   == p % MAX_LEDS
        IN  IF run < RUN_COUNT /\ i < LED_COUNT[run + 1]
            THEN LET src == SumLeds(run) + 3 * i
                 IN  <<frame_data[src + 1], frame_data[src + 2], frame_data[src + 3]>>
            ELSE BLACK]

\* the two inner loops of driver_show_frame for one run, as the set_pixel
\* calls for indices 0..n-1: the run's RGB triples, then black
RECURSIVE ShowRun(_, _, _, _)
ShowRun(leds, run, n, frame_data) ==
    IF n = 0 THEN leds
    ELSE leds_set_pixel(ShowRun(leds, run, n - 1, frame_data), run, n - 1,
                        IF n - 1 < LED_COUNT[run + 1]
                        THEN LET src == SumLeds(run) + 3 * (n - 1)
                             IN  <<frame_data[src + 1], frame_data[src + 2],
                                   frame_data[src + 3]>>
                        ELSE BLACK)

\* the outer loops of driver_show_frame over strips 0..n-1
RECURSIVE ShowStrips(_, _, _)
ShowStrips(leds, n, frame_data) ==
    IF n = 0 THEN leds
    ELSE IF n - 1 < RUN_COUNT
    THEN ShowRun(ShowStrips(leds, n - 1, frame_data), n - 1, MAX_LEDS, frame_data)
    ELSE FillStrip(ShowStrips(leds, n - 1, frame_data), n - 1, MAX_LEDS, BLACK)

\* driver_show_frame writing only the LEDs the frame has data for
driver_show_frame_pixels_DataOnly(leds, frame_data) ==
    [p \in DOMAIN leds |->
        IF p \div MAX_LEDS < RUN_COUNT /\ p % MAX_LEDS < LED_COUNT[p \div MAX_LEDS + 1]
        THEN ShowStrips(leds, NUM_STRIPS, frame_data)[p]
        ELSE leds[p]]

\* the LED buffer after the set_pixel calls of driver_show_frame on leds
driver_show_frame_pixels(leds, frame_data) ==
    ShowStrips(leds, NUM_STRIPS, frame_data)

driver_show_black == [p \in 0..(NUM_STRIPS * MAX_LEDS - 1) |-> BLACK]

driver_ready_for_frames_Always(now, startup_time_ms) == TRUE

driver_ready_for_frames(now, startup_time_ms) ==
    GeU32(Sub32(now, startup_time_ms), STARTUP_BLACKOUT_MS)

(***************************************************************************)
(* wakeup.cpp                                                              *)
(***************************************************************************)
WARM_WHITE == <<128, 100, 64>>

RUN_LIGHT_DURATION_MS == 200

GAP_BETWEEN_RUNS_MS == 50

RECURSIVE FillRun(_, _, _, _)
FillRun(leds, run_index, n, rgb) ==
    IF n = 0 THEN leds
    ELSE leds_set_pixel(FillRun(leds, run_index, n - 1, rgb), run_index, n - 1, rgb)

set_run_warm_white(leds, run_index) ==
    FillRun(leds, run_index, LED_COUNT[run_index + 1], WARM_WHITE)

\* set_run_black clearing only the first LED of the run
set_run_black_FirstLedOnly(leds, run_index) ==
    leds_set_pixel(leds, run_index, 0, BLACK)

set_run_black(leds, run_index) ==
    FillRun(leds, run_index, LED_COUNT[run_index + 1], BLACK)

RECURSIVE BlackRuns(_, _)
BlackRuns(leds, n) ==
    IF n = 0 THEN leds ELSE set_run_black(BlackRuns(leds, n - 1), n - 1)

set_all_runs_black(leds) == BlackRuns(leds, RUN_COUNT)

wakeup_init(now) ==
    [current_state |-> "IDLE", current_run_index |-> 0, state_start_time_ms |-> now]

wakeup_is_complete(w) == w.current_state = "COMPLETE"

\* the state part of wakeup_poll's switch (lines 68-109) for a build with
\* run_count runs, at time now with the DMA idle
wakeup_transition(w, now, run_count) ==
    LET elapsed == Sub32(now, w.state_start_time_ms)
    IN  IF w.current_state = "IDLE"
        THEN [w EXCEPT !.current_state = "LIGHTING_RUN", !.state_start_time_ms = now]
        ELSE IF w.current_state = "LIGHTING_RUN"
        THEN IF GeU32(elapsed, RUN_LIGHT_DURATION_MS)
             THEN IF w.current_run_index + 1 >= run_count
                  THEN [w EXCEPT !.current_run_index = @ + 1,
                                 !.current_state = "COMPLETE"]
                  ELSE [w EXCEPT !.current_run_index = @ + 1,
                                 !.current_state = "GAP_AFTER_RUN",
                                 !.state_start_time_ms = now]
             ELSE w
        ELSE IF w.current_state = "GAP_AFTER_RUN"
        THEN IF GeU32(elapsed, GAP_BETWEEN_RUNS_MS)
             THEN [w EXCEPT !.current_state = "LIGHTING_RUN",
                            !.state_start_time_ms = now]
             ELSE w
        ELSE w

\* wakeup_poll lighting the next run without waiting out the gap
wakeup_poll_NoGap(w, h) ==
    LET now     == h.simulated_time_ms
        elapsed == Sub32(now, w.state_start_time_ms)
        Show(leds) == [h EXCEPT !.led_buffer = leds, !.show_count = @ + 1,
                                !.dma_busy = TRUE]
    IN  IF w.current_state = "COMPLETE" \/ h.dma_busy
        THEN [w |-> w, h |-> h]
        ELSE IF w.current_state = "IDLE"
        THEN [w |-> [w EXCEPT !.current_state = "LIGHTING_RUN",
                              !.state_start_time_ms = now],
              h |-> Show(set_run_warm_white(set_all_runs_black(h.led_buffer),
                                            w.current_run_index))]
        ELSE IF w.current_state = "LIGHTING_RUN"
        THEN IF GeU32(elapsed, RUN_LIGHT_DURATION_MS)
             THEN [w |-> IF w.current_run_index + 1 >= RUN_COUNT
                         THEN [w EXCEPT !.current_run_index = @ + 1,
                                        !.current_state = "COMPLETE"]
                         ELSE [w EXCEPT !.current_run_index = @ + 1,
                                        !.current_state = "GAP_AFTER_RUN",
                                        !.state_start_time_ms = now],
                   h |-> Show(set_run_black(h.led_buffer, w.current_run_index))]
             ELSE [w |-> w, h |-> h]
        ELSE IF TRUE
             THEN [w |-> [w EXCEPT !.current_state = "LIGHTING_RUN",
                                   !.state_start_time_ms = now],
                   h |-> Show(set_run_warm_white(h.led_buffer, w.current_run_index))]
             ELSE [w |-> w, h |-> h]

\* wakeup_poll running the effect again from COMPLETE
wakeup_poll_Restart(w, h) ==
    LET now     == h.simulated_time_ms
        elapsed == Sub32(now, w.state_start_time_ms)
        Show(leds) == [h EXCEPT !.led_buffer = leds, !.show_count = @ + 1,
                                !.dma_busy = TRUE]
    IN  IF h.dma_busy
        THEN [w |-> w, h |-> h]
        ELSE IF w.current_state = "IDLE" \/ w.current_state = "COMPLETE"
        THEN [w |-> [w EXCEPT !.current_state = "LIGHTING_RUN",
                              !.current_run_index = 0,
                              !.state_start_time_ms = now],
              h |-> Show(set_run_warm_white(set_all_runs_black(h.led_buffer), 0))]
        ELSE IF w.current_state = "LIGHTING_RUN"
        THEN IF GeU32(elapsed, RUN_LIGHT_DURATION_MS)
             THEN [w |-> IF w.current_run_index + 1 >= RUN_COUNT
                         THEN [w EXCEPT !.current_run_index = @ + 1,
                                        !.current_state = "COMPLETE"]
                         ELSE [w EXCEPT !.current_run_index = @ + 1,
                                        !.current_state = "GAP_AFTER_RUN",
                                        !.state_start_time_ms = now],
                   h |-> Show(set_run_black(h.led_buffer, w.current_run_index))]
             ELSE [w |-> w, h |-> h]
        ELSE IF GeU32(elapsed, GAP_BETWEEN_RUNS_MS)
             THEN [w |-> [w EXCEPT !.current_state = "LIGHTING_RUN",
                                   !.state_start_time_ms = now],
                   h |-> Show(set_run_warm_white(h.led_buffer, w.current_run_index))]
             ELSE [w |-> w, h |-> h]

\* wakeup_poll going from a lit run into the gap without moving to the next run
wakeup_poll_SameRun(w, h) ==
    LET now == h.simulated_time_ms
        w2  == wakeup_transition(w, now, RUN_COUNT)
        w3  == IF w.current_state = "LIGHTING_RUN" /\ w2 # w
               THEN [w EXCEPT !.current_state = "GAP_AFTER_RUN",
                              !.state_start_time_ms = now]
               ELSE w2
    IN  IF w.current_state = "COMPLETE" \/ h.dma_busy
        THEN [w |-> w, h |-> h]
        ELSE [w |-> w3,
              h |-> IF w3 = w THEN h
                    ELSE [h EXCEPT !.show_count = @ + 1, !.dma_busy = TRUE]]

\* h is the HAL state; returns the wakeup state and the HAL state after the call
wakeup_poll(w, h) ==
    LET now     == h.simulated_time_ms
        elapsed == Sub32(now, w.state_start_time_ms)
        Show(leds) == [h EXCEPT !.led_buffer = leds, !.show_count = @ + 1,
                                !.dma_busy = TRUE]
    IN  IF w.current_state = "COMPLETE" \/ h.dma_busy
        THEN [w |-> w, h |-> h]
        ELSE IF w.current_state = "IDLE"
        THEN [w |-> [w EXCEPT !.current_state = "LIGHTING_RUN",
                              !.state_start_time_ms = now],
              h |-> Show(set_run_warm_white(set_all_runs_black(h.led_buffer),
                                            w.current_run_index))]
        ELSE IF w.current_state = "LIGHTING_RUN"
        THEN IF GeU32(elapsed, RUN_LIGHT_DURATION_MS)
             THEN [w |-> IF w.current_run_index + 1 >= RUN_COUNT
                         THEN [w EXCEPT !.current_run_index = @ + 1,
                                        !.current_state = "COMPLETE"]
                         ELSE [w EXCEPT !.current_run_index = @ + 1,
                                        !.current_state = "GAP_AFTER_RUN",
                                        !.state_start_time_ms = now],
                   h |-> Show(set_run_black(h.led_buffer, w.current_run_index))]
             ELSE [w |-> w, h |-> h]
        ELSE IF GeU32(elapsed, GAP_BETWEEN_RUNS_MS)
             THEN [w |-> [w EXCEPT !.current_state = "LIGHTING_RUN",
                                   !.state_start_time_ms = now],
                   h |-> Show(set_run_warm_white(h.led_buffer, w.current_run_index))]
             ELSE [w |-> w, h |-> h]

(***************************************************************************)
(* status.cpp                                                              *)
(***************************************************************************)
HEARTBEAT_INTERVAL_MS == 1000

status_init(now) == [startup_time_ms |-> now, last_heartbeat_ms |-> now]

\* the fields of the heartbeat JSON document that vary
Heartbeat_LenOnly(st, now, stats, error) ==
    [uptime_ms |-> Sub32(now, st.startup_time_ms),
     rx_frames |-> stats.rx_frames,
     complete |-> stats.complete_frames,
     applied |-> stats.applied_frames,
     dropped_frames |-> stats.drops_len,
     errors |-> IF error = <<>> THEN <<>> ELSE <<error>>]

Heartbeat(st, now, stats, error) ==
    [uptime_ms |-> Sub32(now, st.startup_time_ms),
     rx_frames |-> stats.rx_frames,
     complete |-> stats.complete_frames,
     applied |-> stats.applied_frames,
     dropped_frames |-> stats.drops_len + stats.drops_stale,
     errors |-> IF error = <<>> THEN <<>> ELSE <<error>>]

\* returns the status, receiver and HAL states after the call
status_poll_KeepError(st, r, h) ==
    LET now == h.simulated_time_ms
    IN  IF ~GeU32(Sub32(now, st.last_heartbeat_ms), HEARTBEAT_INTERVAL_MS)
        THEN [st |-> st, r |-> r, h |-> h]
        ELSE [st |-> [st EXCEPT !.last_heartbeat_ms = now],
              r  |-> receiver_get_and_reset_stats(r),
              h  |-> [h EXCEPT !.sent_heartbeats =
                                  Append(@, Heartbeat(st, now, r.stats,
                                                      receiver_get_last_error(r)))]]

status_poll_Backlog(st, r, h) ==
    LET now == h.simulated_time_ms
    IN  IF ~GeU32(Sub32(now, st.last_heartbeat_ms), HEARTBEAT_INTERVAL_MS)
        THEN [st |-> st, r |-> r, h |-> h]
        ELSE LET error == receiver_get_last_error(r)
                 r1    == receiver_get_and_reset_stats(r)
                 r2    == IF error # <<>> THEN receiver_clear_last_error(r1) ELSE r1
             IN  [st |-> [st EXCEPT !.last_heartbeat_ms =
                                       Add32(@, HEARTBEAT_INTERVAL_MS)],
                  r  |-> r2,
                  h  |-> [h EXCEPT !.sent_heartbeats =
                                      Append(@, Heartbeat(st, now, r.stats, error))]]

status_poll(st, r, h) ==
    LET now == h.simulated_time_ms
    IN  IF ~GeU32(Sub32(now, st.last_heartbeat_ms), HEARTBEAT_INTERVAL_MS)
        THEN [st |-> st, r |-> r, h |-> h]
        ELSE LET error == receiver_get_last_error(r)
                 r1    == receiver_get_and_reset_stats(r)
                 r2    == IF error # <<>> THEN receiver_clear_last_error(r1) ELSE r1
             IN  [st |-> [st EXCEPT !.last_heartbeat_ms = now],
                  r  |-> r2,
                  h  |-> [h EXCEPT !.sent_heartbeats =
                                      Append(@, Heartbeat(st, now, r.stats, error))]]

(***************************************************************************)
(* led_status.cpp                                                          *)
(***************************************************************************)
SLOW_BLINK_INTERVAL_MS == 500

PULSE_FRAMES == 600

PULSE_EVERY == 60

led_status_init(now) ==
    [first_frame_received |-> FALSE, frame_count |-> 0,
     last_blink_ms |-> now, led_state |-> FALSE]

\* led_status_poll toggling without restarting the blink interval
led_status_poll_NoRearm(ls, h) ==
    LET now == h.simulated_time_ms
    IN  IF ~ls.first_frame_received
           /\ GeU32(Sub32(now, ls.last_blink_ms), SLOW_BLINK_INTERVAL_MS)
        THEN [ls  |-> [ls EXCEPT !.led_state = ~@],
              h   |-> [h EXCEPT !.status_led_state = ~ls.led_state],
              pin |-> << ~ls.led_state >>]
        ELSE [ls |-> ls, h |-> h, pin |-> <<>>]

\* returns the activity-LED state and the HAL state after the call
led_status_poll(ls, h) ==
    LET now == h.simulated_time_ms
    IN  IF ~ls.first_frame_received
           /\ GeU32(Sub32(now, ls.last_blink_ms), SLOW_BLINK_INTERVAL_MS)
        THEN [ls  |-> [ls EXCEPT !.last_blink_ms = now, !.led_state = ~@],
              h   |-> [h EXCEPT !.status_led_state = ~ls.led_state],
              pin |-> << ~ls.led_state >>]
        ELSE [ls |-> ls, h |-> h, pin |-> <<>>]

\* led_status_frame_displayed leaving the pin as the slow blink left it
led_status_frame_displayed_KeepPin(ls, h) ==
    LET count == Add32(ls.frame_count, 1)
        pulse == count >= 0 /\ count <= PULSE_FRAMES /\ count % PULSE_EVERY = 0
    IN  [ls  |-> [ls EXCEPT !.first_frame_received = TRUE, !.frame_count = count],
         h   |-> IF pulse
                 THEN [h EXCEPT !.status_led_state = FALSE,
                                !.simulated_time_ms = Add32(@, 1)]
                 ELSE h,
         pin |-> IF pulse THEN <<TRUE, FALSE>> ELSE <<>>]

\* frame_count is a uint32_t compared as unsigned; pin is the sequence of
\* values the call writes with status_led_set
led_status_frame_displayed(ls, h) ==
    LET count == Add32(ls.frame_count, 1)
        pulse == count >= 0 /\ count <= PULSE_FRAMES /\ count % PULSE_EVERY = 0
        h1    == IF ~ls.first_frame_received
                 THEN [h EXCEPT !.status_led_state = FALSE] ELSE h
    IN  [ls  |-> [ls EXCEPT !.first_frame_received = TRUE, !.frame_count = count],
         h   |-> IF pulse
                 THEN [h1 EXCEPT !.status_led_state = FALSE,
                                 !.simulated_time_ms = Add32(@, 1)]
                 ELSE h1,
         pin |-> (IF ~ls.first_frame_received THEN <<FALSE>> ELSE <<>>)
                 \o (IF pulse THEN <<TRUE, FALSE>> ELSE <<>>)]

(***************************************************************************)
(* hal_native.cpp network_poll: drains the queue into the receiver         *)
(***************************************************************************)
\* the member of a one-element set: binds an intermediate state once
Only(S) == CHOOSE x \in S : TRUE

RECURSIVE DrainQueue(_, _, _)
DrainQueue(r, now, queue) ==
    IF queue = <<>> THEN r
    ELSE Only({DrainQueue(r1, now, Tail(queue)) :
                 r1 \in {receiver_handle_packet(r, now, Head(queue).run_index,
                                                Head(queue).data)}})

\* returns the receiver and HAL states after the call
network_poll(r, h) ==
    [r |-> DrainQueue(r, h.simulated_time_ms, h.packet_queue),
     h |-> [h EXCEPT !.packet_queue = <<>>]]

leds_show(h, leds) ==
    [h EXCEPT !.led_buffer = leds, !.show_count = @ + 1, !.dma_busy = TRUE]

(***************************************************************************)
(* main.cpp: one pass of loop() over the whole program state               *)
(***************************************************************************)
\* the rest of the pass displaying a ready frame without asking driver_is_busy
DisplayAndPoll_IgnoreBusy(s, np, frame, r2) ==
    LET display == frame # NULL
    IN  Only({ Only({ Only({ Only({
            [s EXCEPT !.receiver = sp.r, !.status = sp.st,
                      !.led_status = lp.ls, !.hal = lp.h]
            : lp \in {led_status_poll(ld.ls, sp.h)} })
            : sp \in {status_poll(s.status, r2, ld.h)} })
            : ld \in {IF display
                      THEN led_status_frame_displayed(s.led_status, h2)
                      ELSE [ls |-> s.led_status, h |-> h2]} })
            : h2 \in {IF display
                      THEN leds_show(np.h, driver_show_frame(r2.slots[frame].rgb_data))
                      ELSE np.h} })

\* the rest of the pass once receiver_get_complete_frame has returned frame
\* and left the receiver as r2: display, heartbeat, activity LED
DisplayAndPoll(s, np, frame, r2) ==
    LET display == frame # NULL /\ ~np.h.dma_busy
    IN  Only({ Only({ Only({ Only({
            [s EXCEPT !.receiver = sp.r, !.status = sp.st,
                      !.led_status = lp.ls, !.hal = lp.h]
            : lp \in {led_status_poll(ld.ls, sp.h)} })
            : sp \in {status_poll(s.status, r2, ld.h)} })
            : ld \in {IF display
                      THEN led_status_frame_displayed(s.led_status, h2)
                      ELSE [ls |-> s.led_status, h |-> h2]} })
            : h2 \in {IF display
                      THEN leds_show(np.h, driver_show_frame(r2.slots[frame].rgb_data))
                      ELSE np.h} })

\* loop() without the wakeup gate of lines 45-48
loop_NoGate(s) ==
    Only({ IF driver_ready_for_frames(np.h.simulated_time_ms,
                                      s.led_driver.startup_time_ms)
           THEN DisplayAndPoll(s, np, receiver_get_complete_frame_result(np.r),
                               receiver_get_complete_frame(np.r))
           ELSE DisplayAndPoll(s, np, NULL, np.r)
           : np \in {network_poll(s.receiver, s.hal)} })

loop(s) ==
    IF ~wakeup_is_complete(s.wakeup)
    THEN Only({ [s EXCEPT !.wakeup = wp.w, !.hal = wp.h]
                : wp \in {wakeup_poll(s.wakeup, s.hal)} })
    ELSE Only({ IF driver_ready_for_frames(np.h.simulated_time_ms,
                                           s.led_driver.startup_time_ms)
                THEN DisplayAndPoll(s, np, receiver_get_complete_frame_result(np.r),
                                    receiver_get_complete_frame(np.r))
                ELSE DisplayAndPoll(s, np, NULL, np.r)
                : np \in {network_poll(s.receiver, s.hal)} })

(***************************************************************************)
(* The program state: one variable per module (the modules are process-    *)
(* wide singletons), each a record of that module's static variables.      *)
(***************************************************************************)
VARIABLES
    hal,          \* hal_native.cpp statics, plus dma_busy for the DMA engine
    receiver,     \* receiver.cpp statics
    led_driver,   \* led_driver.cpp statics
    wakeup,       \* wakeup.cpp statics
    status,       \* status.cpp statics
    led_status,   \* led_status.cpp statics
    ready,        \* observation: the frame whose completion set complete_frame
    pub_ids,      \* observation: ids published in this session, oldest first
    loop_ev       \* observation: what the last loop() pass did with the frame

vars == <<hal, receiver, led_driver, wakeup, status, led_status,
          ready, pub_ids, loop_ev>>

NONE == <<>>

\* setup() at boot time 0: driver_init pushes an all-black frame
Init ==
    /\ hal = [simulated_time_ms |-> 0, packet_queue |-> <<>>,
              led_buffer |-> driver_show_black, show_count |-> 1,
              dma_busy |-> TRUE, status_led_state |-> FALSE,
              sent_heartbeats |-> <<>>]
    /\ led_driver = [startup_time_ms |-> 0]
    /\ wakeup = wakeup_init(0)
    /\ receiver = receiver_init
    /\ status = status_init(0)
    /\ led_status = led_status_init(0)
    /\ ready = NONE
    /\ pub_ids = <<>>
    /\ loop_ev = NONE

(***************************************************************************)
(* Inputs: the packets a sender or the test harness can inject.  A         *)
(* packet's RGB bytes name the session, frame, run and byte they belong    *)
(* to, so a buffer's content tells which packets wrote it.                 *)
(***************************************************************************)
SessionIds == {0, 1}

\* 0xFFFFFFFF is -1 in the signed representation
FrameIds == {0, 1, 2, -1}

MaxRx == 2

Payload(s, f, run, v) ==
    [k \in 1..(3 * LED_COUNT[run + 1]) |-> 128 * v + 64 * s + 16 * (f % 4) + 8 * run + k]

\* v distinguishes two packets with the same header
RunPacketV(run, s, f, v) ==
    [run_index |-> run, data |-> build_packet(s, f, Payload(s, f, run, v))]

RunPacket(run, s, f) == RunPacketV(run, s, f, 0)

Runs == 0..(RUN_COUNT - 1)

ValidPackets == {RunPacket(run, s, f) : run \in Runs, s \in SessionIds, f \in FrameIds}

\* bad run index, a run's length on the other run's port, shorter than the header
MalformedPackets ==
    { [run_index |-> RUN_COUNT, data |-> RunPacket(0, 1, 2).data],
      [run_index |-> 255, data |-> RunPacket(1, 0, 1).data],
      [run_index |-> 0, data |-> RunPacket(1, 1, 2).data],
      [run_index |-> 1, data |-> RunPacket(0, 0, -1).data],
      [run_index |-> 1, data |-> <<0, 1, 0>>],
      [run_index |-> 0, data |-> <<>>] }

Packets == ValidPackets \cup MalformedPackets

PktSession(pkt) == read_u16_be(pkt.data, 0)

PktFrame(pkt) == read_u32_be(pkt.data, 2)

PktRgb(pkt) == SubSeq(pkt.data, HEADER_SIZE + 1, Len(pkt.data))

Handle(r, pkt) == receiver_handle_packet(r, hal.simulated_time_ms, pkt.run_index, pkt.data)

(***************************************************************************)
(* Observation of one receiver_handle_packet call on receiver state r.     *)
(***************************************************************************)
\* the packet takes the session-change branch (line 173)
TakesSessionChange(r, pkt) ==
    ValidPacket(pkt.run_index, pkt.data) /\ SessionChanges(r, PktSession(pkt))

\* the call sets complete_frame (lines 207-208): it counts a completion and
\* leaves the packet's frame id as the last applied one, which a completion the
\* newness check rejects cannot do
Publishes(r, pkt) ==
    /\ ValidPacket(pkt.run_index, pkt.data)
    /\ Handle(r, pkt).stats.complete_frames = r.stats.complete_frames + 1
    /\ Handle(r, pkt).complete_frame # NULL
    /\ Handle(r, pkt).last_applied_frame_id = PktFrame(pkt)
    /\ PublishAllowed(HandleSessionChange(r, hal.simulated_time_ms, PktSession(pkt)),
                      PktFrame(pkt))

ObserveReady(g, r, pkt) ==
    IF Publishes(r, pkt)
    THEN [session_id |-> PktSession(pkt), frame_id |-> PktFrame(pkt),
          rgb_data |-> Handle(r, pkt).slots[Handle(r, pkt).complete_frame].rgb_data]
    ELSE g

(***************************************************************************)
(* Receiver API calls, as the unit tests make them.                        *)
(***************************************************************************)
HandlePacket(pkt) ==
    /\ receiver.stats.rx_frames < MaxRx
    /\ receiver' = Handle(receiver, pkt)
    /\ ready' = ObserveReady(ready, receiver, pkt)
    /\ UNCHANGED <<hal, led_driver, wakeup, status, led_status>>

GetCompleteFrame ==
    /\ receiver' = receiver_get_complete_frame(receiver)
    /\ ready' = NONE
    /\ UNCHANGED <<hal, led_driver, wakeup, status, led_status>>

GetAndResetStats ==
    /\ receiver' = receiver_get_and_reset_stats(receiver)
    /\ UNCHANGED <<hal, led_driver, wakeup, status, led_status, ready>>

RecvHandle == \E pkt \in Packets : HandlePacket(pkt) /\ UNCHANGED <<pub_ids, loop_ev>>

RecvGet == GetCompleteFrame /\ UNCHANGED <<pub_ids, loop_ev>>

RecvStats == GetAndResetStats /\ UNCHANGED <<pub_ids, loop_ev>>

NextRecv == RecvHandle \/ RecvGet \/ RecvStats

SpecRecv == Init /\ [][NextRecv]_vars

(***************************************************************************)
(* Vocabulary of the claims, stated from the wire format and the frame     *)
(* layout rather than from the receiver's own helpers.                     *)
(***************************************************************************)
Malformed(pkt) ==
    \/ pkt.run_index >= RUN_COUNT
    \/ Len(pkt.data) # 6 + 3 * LED_COUNT[pkt.run_index + 1]

\* byte offset of a run in a frame: 3 * sum(LED_COUNT[j], j < run)
RECURSIVE LayoutOffset(_)
LayoutOffset(run) == IF run = 0 THEN 0 ELSE LayoutOffset(run - 1) + 3 * LED_COUNT[run]

Region(rgb, run) ==
    SubSeq(rgb, LayoutOffset(run) + 1, LayoutOffset(run) + 3 * LED_COUNT[run + 1])

\* the complete payload of frame (s, f): run 0's RGB, then run 1's, ...
RECURSIVE FramePrefix(_, _, _)
FramePrefix(s, f, n) ==
    IF n = 0 THEN <<>> ELSE FramePrefix(s, f, n - 1) \o Payload(s, f, n - 1, 0)

FullFrame(s, f) == FramePrefix(s, f, RUN_COUNT)

SlotsInUse(r) == {i \in DOMAIN r.slots : r.slots[i].in_use}

\* r with only the two named counters one higher
CountedDrop(r, counter) ==
    [r EXCEPT !.stats = [@ EXCEPT !.rx_frames = @ + 1, ![counter] = @ + 1]]

(***************************************************************************)
(* C4  Malformed packet. In every reachable receiver state, handling a     *)
(* packet whose run index is >= RUN_COUNT or whose length is not           *)
(* 6 + 3*LED_COUNT[run] raises rx_frames and drops_len by one and changes  *)
(* nothing else, whatever its header bytes say.                            *)
(***************************************************************************)
C4_MalformedOnlyCounted ==
    \A pkt \in Packets :
        Malformed(pkt) => Handle(receiver, pkt) = CountedDrop(receiver, "drops_len")

\* a malformed packet was dropped while a frame was being assembled
C4_Witness ==
    /\ receiver.stats.drops_len >= 1
    /\ receiver.session_initialized
    /\ SlotsInUse(receiver) # {}
    /\ receiver.stats.rx_frames = receiver.stats.drops_len + 1

(***************************************************************************)
(* C9  Stale drop. A valid-length packet of the current session arriving   *)
(* when last_applied_frame_id # 0 and its frame id is not newer than       *)
(* last_applied_frame_id raises rx_frames and drops_stale by one and       *)
(* changes nothing else.                                                   *)
(***************************************************************************)
C9_StaleOnlyCounted ==
    \A pkt \in ValidPackets :
        ( /\ receiver.session_initialized
          /\ PktSession(pkt) = receiver.current_session_id
          /\ receiver.last_applied_frame_id # 0
          /\ Sub32(PktFrame(pkt), receiver.last_applied_frame_id) <= 0 )
        => Handle(receiver, pkt) = CountedDrop(receiver, "drops_stale")

\* a stale packet was dropped while a newer frame was being assembled
C9_Witness ==
    /\ receiver.stats.drops_stale >= 1
    /\ receiver.last_applied_frame_id # 0
    /\ SlotsInUse(receiver) # {}
    /\ receiver.stats.rx_frames = receiver.stats.drops_stale + 1

(***************************************************************************)
(* C5  Session change clears assembly state. A valid-length packet whose   *)
(* session id differs from the current one (or that finds the receiver     *)
(* uninitialised) leaves only its own run in the slot table: one slot      *)
(* holds its frame id with exactly its run bit and its RGB at its offset   *)
(* over zeros, every other slot is empty, and last_applied_frame_id is 0.  *)
(* Hence every byte of a partial or published frame was written by packets *)
(* of the current session carrying that frame's id.                        *)
(***************************************************************************)
OnlyThisRun(slot, pkt) ==
    /\ slot.in_use
    /\ slot.frame_id = PktFrame(pkt)
    /\ slot.received_mask = 2 ^ pkt.run_index
    /\ \A run \in Runs :
          Region(slot.rgb_data, run) =
             IF run = pkt.run_index THEN PktRgb(pkt) ELSE Zeros(3 * LED_COUNT[run + 1])

SlotFromSession(slot, s) ==
    \A run \in Runs :
        Region(slot.rgb_data, run) =
           IF BitSet(slot.received_mask, run)
           THEN Payload(s, slot.frame_id, run, 0)
           ELSE Zeros(3 * LED_COUNT[run + 1])

C5_SessionChangeClears ==
    /\ \A pkt \in ValidPackets :
          (~receiver.session_initialized \/ PktSession(pkt) # receiver.current_session_id)
          => LET post == Handle(receiver, pkt)
             IN  /\ post.last_applied_frame_id = 0
                 /\ post.current_session_id = PktSession(pkt)
                 /\ \E i \in DOMAIN post.slots :
                       /\ OnlyThisRun(post.slots[i], pkt)
                       /\ \A j \in DOMAIN post.slots \ {i} : post.slots[j] = EmptySlot
    /\ \A i \in SlotsInUse(receiver) :
          SlotFromSession(receiver.slots[i], receiver.current_session_id)
    /\ ready # NONE => ready.rgb_data = FullFrame(ready.session_id, ready.frame_id)

\* a session change happened while the old session had a partial frame and a
\* last applied id: the table now holds only the new packet's run
C5_Witness ==
    /\ receiver.session_initialized
    /\ receiver.has_error
    /\ receiver.error_buffer[2] # receiver.error_buffer[3]
    /\ receiver.last_applied_frame_id = 0
    /\ receiver.stats.complete_frames >= 1
    /\ Cardinality(SlotsInUse(receiver)) = 1

(***************************************************************************)
(* C6  After a session change the packet that caused it is never dropped   *)
(* as stale, whatever its frame id: drops_stale does not increase, the     *)
(* packet is merged into a slot, and when the R run packets of that frame  *)
(* arrive consecutively (in any order) the frame is published.             *)
(***************************************************************************)
RunOrders == {q \in [1..RUN_COUNT -> Runs] : \A a, b \in 1..RUN_COUNT : a # b => q[a] # q[b]}

RECURSIVE Deliver(_, _, _, _)
\* the receiver state after the first n packets of frame (s, f) with runs q[1..n]
Deliver(r, s, f, q) ==
    IF q = <<>> THEN r
    ELSE Handle(Deliver(r, s, f, SubSeq(q, 1, Len(q) - 1)), RunPacket(q[Len(q)], s, f))

C6_NewSessionNeverStale ==
    \A s \in SessionIds, f \in FrameIds, q \in RunOrders :
        (~receiver.session_initialized \/ s # receiver.current_session_id)
        => LET first == Deliver(receiver, s, f, <<q[1]>>)
               last  == Deliver(receiver, s, f, q)
           IN  /\ first.stats.drops_stale = receiver.stats.drops_stale
               /\ \E i \in SlotsInUse(first) :
                     /\ first.slots[i].frame_id = f
                     /\ BitSet(first.slots[i].received_mask, q[1])
               /\ last.stats.drops_stale = receiver.stats.drops_stale
               /\ last.stats.complete_frames = receiver.stats.complete_frames + 1
               /\ last.complete_frame # NULL
               /\ last.slots[last.complete_frame].rgb_data = FullFrame(s, f)
               /\ last.last_applied_frame_id = f

\* the session changed 1 -> 0 on a packet of frame 0, which was merged, right
\* after a frame of session 1 had completed
C6_Witness ==
    /\ receiver.session_initialized
    /\ receiver.error_buffer = <<0, 1, 0>>
    /\ receiver.stats.complete_frames = 1
    /\ receiver.stats.rx_frames = 2
    /\ receiver.stats.drops_stale = 0
    /\ \E i \in SlotsInUse(receiver) : receiver.slots[i].frame_id = 0
    /\ receiver.last_applied_frame_id = 0

(***************************************************************************)
(* C8  Frame assembly is order-independent. From every reachable state in  *)
(* which frame f of the current session is eligible, delivering run        *)
(* packets of f in any order, duplicates included, completes the frame     *)
(* exactly when the last missing run arrives and not before; the           *)
(* published buffer then holds, for each run at its layout offset, the     *)
(* RGB last delivered for that run, and complete_frames is one higher.     *)
(***************************************************************************)
MaxSeqLen == 3

\* got.runs: the runs delivered so far; got.v[run]: the variant of the data
\* last delivered for the run
RECURSIVE ExpectedPrefix(_, _, _, _)
ExpectedPrefix(s, f, got, n) ==
    IF n = 0 THEN <<>>
    ELSE ExpectedPrefix(s, f, got, n - 1) \o Payload(s, f, n - 1, got.v[n - 1])

RECURSIVE AssemblesFrom(_, _, _, _, _, _)
AssemblesFrom(r0, r, s, f, got, n) ==
    \/ n = 0
    \/ \A run \in Runs :
          LET v    == IF run \in got.runs THEN 1 ELSE 0
              post == Handle(r, RunPacketV(run, s, f, v))
              got2 == [runs |-> got.runs \cup {run}, v |-> [got.v EXCEPT ![run] = v]]
          IN  IF got2.runs # Runs
              THEN /\ post.stats.complete_frames = r0.stats.complete_frames
                   /\ post.complete_frame = r0.complete_frame
                   /\ post.last_applied_frame_id = r0.last_applied_frame_id
                   /\ AssemblesFrom(r0, post, s, f, got2, n - 1)
              ELSE /\ post.stats.complete_frames = r0.stats.complete_frames + 1
                   /\ post.complete_frame # NULL
                   /\ post.slots[post.complete_frame].rgb_data =
                         ExpectedPrefix(s, f, got2, RUN_COUNT)
                   /\ post.last_applied_frame_id = f
                   /\ post.stats.drops_stale = r0.stats.drops_stale

\* the runs of frame f already merged in r
Have(r, f) ==
    [runs |-> {run \in Runs : \E i \in SlotsInUse(r) :
                                 /\ r.slots[i].frame_id = f
                                 /\ BitSet(r.slots[i].received_mask, run)},
     v |-> [run \in Runs |-> 0]]

Eligible(r, f) ==
    r.last_applied_frame_id = 0 \/ Sub32(f, r.last_applied_frame_id) > 0

C8_AssemblyOrderIndependent ==
    \A f \in FrameIds :
        (receiver.session_initialized /\ Eligible(receiver, f))
        => AssemblesFrom(receiver, receiver, receiver.current_session_id, f,
                         Have(receiver, f), MaxSeqLen)

\* run 1 of an eligible frame arrived before its run 0, with both slots taken
C8_Witness ==
    /\ receiver.session_initialized
    /\ Cardinality(SlotsInUse(receiver)) = 2
    /\ \E i \in SlotsInUse(receiver) :
          /\ receiver.slots[i].received_mask = 2
          /\ Eligible(receiver, receiver.slots[i].frame_id)
          /\ receiver.last_applied_frame_id # 0

(***************************************************************************)
(* A packet stream restricted to one session, with the ids of the frames   *)
(* published in it recorded in pub_ids.                                    *)
(***************************************************************************)
MaxPub == 3

TheSession == CHOOSE s \in SessionIds : s # 0

SessionPackets == {RunPacket(run, TheSession, f) : run \in Runs, f \in FrameIds}

ObservePub(ids, r, pkt) ==
    LET base == IF TakesSessionChange(r, pkt) THEN <<>> ELSE ids
    IN  IF Publishes(r, pkt) THEN Append(base, PktFrame(pkt)) ELSE base

OrderHandle ==
    \E pkt \in SessionPackets :
        /\ Len(pub_ids) < MaxPub
        /\ HandlePacket(pkt)
        /\ pub_ids' = ObservePub(pub_ids, receiver, pkt)
        /\ UNCHANGED loop_ev

OrderGet == GetCompleteFrame /\ UNCHANGED <<pub_ids, loop_ev>>

OrderStats == GetAndResetStats /\ UNCHANGED <<pub_ids, loop_ev>>

NextOrder == OrderHandle \/ OrderGet \/ OrderStats

SpecOrder == Init /\ [][NextOrder]_vars

\* receiver_get_complete_frame is called after every receiver_handle_packet
HandleThenTake ==
    \E pkt \in SessionPackets :
        /\ Len(pub_ids) < MaxPub
        /\ receiver.stats.rx_frames < MaxRx
        /\ receiver' = receiver_get_complete_frame(Handle(receiver, pkt))
        /\ pub_ids' = IF receiver_get_complete_frame_result(Handle(receiver, pkt)) # NULL
                      THEN Append(pub_ids, PktFrame(pkt)) ELSE pub_ids
        /\ UNCHANGED <<hal, led_driver, wakeup, status, led_status, ready, loop_ev>>

NextTake == HandleThenTake \/ OrderStats

SpecTake == Init /\ [][NextTake]_vars

(***************************************************************************)
(* C2  Within one session, every two successively published frames a then *)
(* b satisfy newer(b, a), for every id value including 0 and the ids       *)
(* around the 32-bit wraparound.                                           *)
(***************************************************************************)
C2_SuccessiveFramesNewer ==
    \A i \in 1..(Len(pub_ids) - 1) : Sub32(pub_ids[i + 1], pub_ids[i]) > 0

(***************************************************************************)
(* C7  In a single-session stream with receiver_get_complete_frame called  *)
(* after every packet, the frames returned are exactly those that became   *)
(* complete and were newer than every id applied before: each returned id  *)
(* is newer than all earlier returned ids, and a packet completing a frame *)
(* newer than all of them makes the next call return it.                   *)
(***************************************************************************)
C7_ReturnedExactlyNewerCompleted ==
    /\ \A i, j \in 1..Len(pub_ids) : i < j => Sub32(pub_ids[j], pub_ids[i]) > 0
    /\ \A pkt \in SessionPackets :
          ( /\ receiver.session_initialized
            /\ Have(receiver, PktFrame(pkt)).runs \cup {pkt.run_index} = Runs
            /\ \A i \in 1..Len(pub_ids) : Sub32(PktFrame(pkt), pub_ids[i]) > 0 )
          => receiver_get_complete_frame_result(Handle(receiver, pkt)) # NULL

(***************************************************************************)
(* C10  At most one frame is queued for display, and the pending ready     *)
(* frame is only ever replaced by a frame newer than it.                   *)
(***************************************************************************)
C10_PendingReplacedByNewer ==
    [][ (ready # NONE /\ ready' # NONE /\ Len(pub_ids') > Len(pub_ids))
        => Sub32(ready'.frame_id, ready.frame_id) > 0 ]_vars

(***************************************************************************)
(* The main loop on the device: time passes, datagrams arrive and queue in *)
(* the HAL, the DMA engine finishes a transfer, loop() runs one pass.      *)
(***************************************************************************)
TickMs == 250

MaxTime == 1000

MaxQueue == 3

MaxLoopRx == 3

LoopFrameIds == {1, 2}

LoopPackets == {RunPacket(run, TheSession, f) : run \in Runs, f \in LoopFrameIds}

\* the datagrams the receiver has handled since construction: those counted
\* since the last heartbeat and those the heartbeats reported
RECURSIVE ReportedRx(_)
ReportedRx(beats) ==
    IF beats = <<>> THEN 0 ELSE Head(beats).rx_frames + ReportedRx(Tail(beats))

HandledSoFar == receiver.stats.rx_frames + ReportedRx(hal.sent_heartbeats)

\* hal::test::inject_packet, or a datagram arriving on a run's socket
inject_packet(h, pkt) == [h EXCEPT !.packet_queue = Append(@, pkt)]

\* the ready observation carried through the packets network_poll delivers
RECURSIVE ObserveDrain(_, _, _)
ObserveDrain(g, r, queue) ==
    IF queue = <<>> THEN g
    ELSE Only({ObserveDrain(step[1], step[2], Tail(queue)) :
                 step \in {<<ObserveReady(g, r, Head(queue)), Handle(r, Head(queue))>>}})

Program ==
    [hal |-> hal, receiver |-> receiver, led_driver |-> led_driver,
     wakeup |-> wakeup, status |-> status, led_status |-> led_status]

\* what the pass does with the ready frame: nothing is observed when the pass
\* polls the wakeup effect, is in the blackout, or finds no ready frame
ObserveLoop(s, g) ==
    LET np == network_poll(s.receiver, s.hal)
    IN  IF /\ wakeup_is_complete(s.wakeup)
           /\ driver_ready_for_frames(np.h.simulated_time_ms, s.led_driver.startup_time_ms)
           /\ receiver_get_complete_frame_result(np.r) # NULL
        THEN [busy |-> np.h.dma_busy,
              published |-> g.rgb_data,
              shown |-> IF np.h.dma_busy THEN NONE
                        ELSE np.r.slots[np.r.complete_frame].rgb_data]
        ELSE NONE

Loop ==
    /\ \E after \in {loop(Program)} :
           /\ hal' = after.hal
           /\ receiver' = after.receiver
           /\ led_driver' = after.led_driver
           /\ wakeup' = after.wakeup
           /\ status' = after.status
           /\ led_status' = after.led_status
    /\ \E g \in {ObserveDrain(ready, receiver, hal.packet_queue)} :
           /\ loop_ev' = ObserveLoop(Program, g)
           /\ ready' = IF ~wakeup_is_complete(wakeup) THEN ready
                       ELSE IF driver_ready_for_frames(hal.simulated_time_ms,
                                                       led_driver.startup_time_ms)
                       THEN NONE ELSE g
    /\ UNCHANGED pub_ids

Tick ==
    /\ hal.simulated_time_ms < MaxTime
    /\ hal' = [hal EXCEPT !.simulated_time_ms = Add32(@, TickMs)]
    /\ UNCHANGED <<receiver, led_driver, wakeup, status, led_status,
                   ready, pub_ids, loop_ev>>

Inject ==
    \E pkt \in LoopPackets :
        /\ Len(hal.packet_queue) < MaxQueue
        /\ HandledSoFar + Len(hal.packet_queue) < MaxLoopRx
        /\ hal' = inject_packet(hal, pkt)
        /\ UNCHANGED <<receiver, led_driver, wakeup, status, led_status,
                       ready, pub_ids, loop_ev>>

\* the DMA engine finishes the transfer leds_show started
DmaDone ==
    /\ hal.dma_busy
    /\ hal' = [hal EXCEPT !.dma_busy = FALSE]
    /\ UNCHANGED <<receiver, led_driver, wakeup, status, led_status,
                   ready, pub_ids, loop_ev>>

NextLoop == Loop \/ Tick \/ Inject \/ DmaDone

SpecLoop == Init /\ [][NextLoop]_vars

(***************************************************************************)
(* C1  Ready-frame integrity. Whenever the loop passes a frame to          *)
(* driver_show_frame, the buffer holds exactly the complete RGB payload of *)
(* the frame whose completion published the pointer, for any number of     *)
(* packets delivered in one network_poll.                                  *)
(***************************************************************************)
C1_ShownFrameIsPublishedFrame ==
    (loop_ev # NONE /\ loop_ev.shown # NONE) => loop_ev.shown = loop_ev.published

(***************************************************************************)
(* C3  DMA busy at display time. A loop pass past the blackout that has a  *)
(* ready frame but finds the DMA busy holds the frame: the ready pointer   *)
(* is not cleared.                                                         *)
(***************************************************************************)
C3_BusyHoldsFrame ==
    (loop_ev # NONE /\ loop_ev.busy) => receiver.complete_frame # NULL


(***************************************************************************)
(* C11  receiver_get_complete_frame is consume-once. In every reachable    *)
(* receiver state: a call that returns a frame clears the pointer and      *)
(* raises applied_frames by one and changes nothing else, a call that      *)
(* returns null changes nothing; a call made right after another returns   *)
(* null and changes nothing; and after a take, a packet makes the next     *)
(* call return a frame only if it completes a frame.                       *)
(***************************************************************************)
C11_ConsumeOnce ==
    \A first \in {receiver_get_complete_frame(receiver)} :
        /\ IF receiver_get_complete_frame_result(receiver) # NULL
           THEN first = [receiver EXCEPT !.complete_frame = NULL,
                                         !.stats.applied_frames = @ + 1]
           ELSE first = receiver
        /\ receiver_get_complete_frame_result(first) = NULL
        /\ receiver_get_complete_frame(first) = first
        /\ \A pkt \in Packets :
              receiver_get_complete_frame_result(Handle(first, pkt)) # NULL
                  => Handle(first, pkt).stats.complete_frames
                         = first.stats.complete_frames + 1

\* a completed frame was taken and nothing is pending
C11_Witness ==
    /\ receiver.stats.complete_frames = 1
    /\ receiver.stats.applied_frames = 1
    /\ receiver.complete_frame = NULL

(***************************************************************************)
(* The receiver API with the receiver_handle_packet calls made since the   *)
(* last receiver_get_and_reset_stats (or since receiver_init) counted in   *)
(* loop_ev.                                                                *)
(***************************************************************************)
CallsSinceReset == IF loop_ev = NONE THEN 0 ELSE loop_ev.calls

CountHandle ==
    \E pkt \in Packets :
        /\ HandlePacket(pkt)
        /\ loop_ev' = [calls |-> CallsSinceReset + 1]
        /\ UNCHANGED pub_ids

CountGet == GetCompleteFrame /\ UNCHANGED <<pub_ids, loop_ev>>

CountStats == GetAndResetStats /\ loop_ev' = NONE /\ UNCHANGED pub_ids

NextCount == CountHandle \/ CountGet \/ CountStats

SpecCount == Init /\ [][NextCount]_vars

CounterNames == {"rx_frames", "complete_frames", "applied_frames", "drops_len", "drops_stale"}

(***************************************************************************)
(* C12  rx_frames equals the number of receiver_handle_packet calls since  *)
(* the last receiver_get_and_reset_stats (or since receiver_init),         *)
(* whatever became of each packet; receiver_get_and_reset_stats returns    *)
(* the five counters and leaves them all 0, so a call repeated at once     *)
(* returns all zeros.                                                      *)
(***************************************************************************)
C12_RxCountsEveryCall ==
    /\ receiver.stats.rx_frames = CallsSinceReset
    /\ \A after \in {receiver_get_and_reset_stats(receiver)} :
          /\ DOMAIN receiver_get_and_reset_stats_result(receiver) = CounterNames
          /\ \A c \in CounterNames :
                /\ receiver_get_and_reset_stats_result(receiver)[c] = receiver.stats[c]
                /\ after.stats[c] = 0
                /\ receiver_get_and_reset_stats_result(after)[c] = 0
          /\ after = [receiver EXCEPT !.stats = after.stats]

\* a malformed packet and a merged one were both counted
C12_Witness ==
    /\ CallsSinceReset = 2
    /\ receiver.stats.drops_len = 1
    /\ SlotsInUse(receiver) # {}


\* the applied_frames the heartbeats sent so far have reported
RECURSIVE ReportedApplied(_)
ReportedApplied(beats) ==
    IF beats = <<>> THEN 0 ELSE Head(beats).applied + ReportedApplied(Tail(beats))

(***************************************************************************)
(* C13  applied_frames counts the frames actually displayed: over any run  *)
(* of the main loop, applied_frames summed over the heartbeats sent plus   *)
(* the current counter equals the number of led_status_frame_displayed     *)
(* notifications, one per driver_show_frame call for a network frame.      *)
(***************************************************************************)
C13_AppliedCountsDisplayed ==
    ReportedApplied(hal.sent_heartbeats) + receiver.stats.applied_frames
        = led_status.frame_count


\* the HAL state with the clock d ms past the last heartbeat
PastHeartbeat(st, h, d) ==
    [h EXCEPT !.simulated_time_ms = Add32(st.last_heartbeat_ms, d)]

LastBeat(h) == h.sent_heartbeats[Len(h.sent_heartbeats)]

(***************************************************************************)
(* C14  Session-change error surfacing. In every reachable receiver state, *)
(* a valid-length packet that is the first after init or carries a         *)
(* different session id leaves the error latch set to the text naming the  *)
(* old and the new session id, whatever the latch held before; the next    *)
(* heartbeat carries exactly that one entry in errors and clears the       *)
(* latch; the heartbeat after it, with no session change in between, has   *)
(* an empty errors array.                                                  *)
(***************************************************************************)
C14_SessionChangeSurfaced ==
    \A pkt \in Packets :
        (/\ ~Malformed(pkt)
         /\ ~receiver.session_initialized \/ PktSession(pkt) # receiver.current_session_id)
        => \A r1 \in {Handle(receiver, pkt)} :
              /\ r1.has_error
              /\ receiver_get_last_error(r1)
                    = <<hal.simulated_time_ms, receiver.current_session_id, PktSession(pkt)>>
              /\ \A sp \in {status_poll(status, r1,
                                        PastHeartbeat(status, hal, HEARTBEAT_INTERVAL_MS))} :
                    /\ Len(sp.h.sent_heartbeats) = Len(hal.sent_heartbeats) + 1
                    /\ LastBeat(sp.h).errors = <<receiver_get_last_error(r1)>>
                    /\ ~sp.r.has_error
                    /\ \A sp2 \in {status_poll(sp.st, sp.r,
                                               PastHeartbeat(sp.st, sp.h, HEARTBEAT_INTERVAL_MS))} :
                          /\ Len(sp2.h.sent_heartbeats) = Len(hal.sent_heartbeats) + 2
                          /\ LastBeat(sp2.h).errors = <<>>

\* a second session change replaced the first one in the latch
C14_Witness ==
    /\ receiver.has_error
    /\ receiver.stats.rx_frames = 2
    /\ receiver.error_buffer[2] # receiver.current_session_id
    /\ receiver.error_buffer[2] # 0


(***************************************************************************)
(* status_poll and the receiver API under a clock that can stall: the      *)
(* clock advances by half a second, a second, or 2^30 ms (four of which    *)
(* wrap the 32-bit millisecond counter), as the status unit tests drive    *)
(* it. loop_ev counts the clock steps and the receiver_handle_packet       *)
(* calls made.                                                             *)
(***************************************************************************)
MaxTicks == 3

MaxHandled == 4

BeatSteps == {500, 1000, 2 ^ 30}

BeatPackets ==
    {RunPacket(run, TheSession, f) : run \in Runs, f \in {1}}
        \cup {[run_index |-> 0, data |-> <<0, 1, 0, 0, 0, 1>>]}

Ticks == IF loop_ev = NONE THEN 0 ELSE loop_ev.ticks

Handled == IF loop_ev = NONE THEN 0 ELSE loop_ev.handled

BeatTick ==
    \E d \in BeatSteps :
        /\ Ticks < MaxTicks
        /\ hal' = [hal EXCEPT !.simulated_time_ms = Add32(@, d)]
        /\ loop_ev' = [ticks |-> Ticks + 1, handled |-> Handled]
        /\ UNCHANGED <<receiver, led_driver, wakeup, status, led_status, ready, pub_ids>>

BeatPoll ==
    /\ \E sp \in {status_poll(status, receiver, hal)} :
           /\ status' = sp.st
           /\ receiver' = sp.r
           /\ hal' = sp.h
    /\ UNCHANGED <<led_driver, wakeup, led_status, ready, pub_ids, loop_ev>>

BeatHandle ==
    \E pkt \in BeatPackets :
        /\ Handled < MaxHandled
        /\ HandlePacket(pkt)
        /\ loop_ev' = [ticks |-> Ticks, handled |-> Handled + 1]
        /\ UNCHANGED pub_ids

BeatGet == GetCompleteFrame /\ UNCHANGED <<pub_ids, loop_ev>>

NextBeat == BeatTick \/ BeatPoll \/ BeatHandle \/ BeatGet

SpecBeat == Init /\ [][NextBeat]_vars

\* (a - b) mod 2^32 >= k for 0 <= k < 2^16, from the 16-bit halves of the
\* unsigned values
UnsignedDiffAtLeast(a, b, k) ==
    LET al == a % 65536
        ah == (a \div 65536) % 65536
        bl == b % 65536
        bh == (b \div 65536) % 65536
        dl == (al - bl) % 65536
        dh == (ah - bh - (IF al < bl THEN 1 ELSE 0)) % 65536
    IN  dh > 0 \/ dl >= k

(***************************************************************************)
(* C15  Heartbeat pacing. status_poll emits exactly one heartbeat when     *)
(* the unsigned 32-bit difference now - last_heartbeat_ms is >= 1000 and   *)
(* sets last_heartbeat_ms to now, so that a poll repeated at once emits    *)
(* nothing, however long the stall was; otherwise it changes nothing. The  *)
(* first heartbeat is not earlier than 1000 ms after status_init and two   *)
(* consecutive heartbeats are at least 1000 ms apart.                      *)
(***************************************************************************)
C15_HeartbeatPacing ==
    /\ \A sp \in {status_poll(status, receiver, hal)} :
          IF UnsignedDiffAtLeast(hal.simulated_time_ms, status.last_heartbeat_ms, 1000)
          THEN /\ Len(sp.h.sent_heartbeats) = Len(hal.sent_heartbeats) + 1
               /\ sp.st.last_heartbeat_ms = hal.simulated_time_ms
               /\ status_poll(sp.st, sp.r, sp.h) = sp
          ELSE sp = [st |-> status, r |-> receiver, h |-> hal]
    /\ \A i \in 1..Len(hal.sent_heartbeats) :
          UnsignedDiffAtLeast(hal.sent_heartbeats[i].uptime_ms,
                              IF i = 1 THEN 0 ELSE hal.sent_heartbeats[i - 1].uptime_ms,
                              1000)

\* one heartbeat was sent after a stall that took the clock past 2^31 ms
C15_Witness ==
    /\ Len(hal.sent_heartbeats) = 2
    /\ hal.sent_heartbeats[1].uptime_ms = 1000
    /\ hal.sent_heartbeats[2].uptime_ms < 0
    /\ status.last_heartbeat_ms = hal.simulated_time_ms

(***************************************************************************)
(* C16  Statistics are windowed per heartbeat without loss or double       *)
(* counting: a heartbeat reports rx_frames, complete and applied equal to  *)
(* the receiver counters and dropped_frames equal to drops_len +           *)
(* drops_stale, and leaves the five counters at 0; every                   *)
(* receiver_handle_packet call is counted in exactly one heartbeat or is   *)
(* still in the current counter.                                           *)
(***************************************************************************)
C16_StatsWindowed ==
    /\ ReportedRx(hal.sent_heartbeats) + receiver.stats.rx_frames = Handled
    /\ \A sp \in {status_poll(status, receiver,
                              PastHeartbeat(status, hal, HEARTBEAT_INTERVAL_MS))} :
          /\ LastBeat(sp.h).rx_frames = receiver.stats.rx_frames
          /\ LastBeat(sp.h).complete = receiver.stats.complete_frames
          /\ LastBeat(sp.h).applied = receiver.stats.applied_frames
          /\ LastBeat(sp.h).dropped_frames
                = receiver.stats.drops_len + receiver.stats.drops_stale
          /\ \A c \in CounterNames : sp.r.stats[c] = 0

\* two windows: a frame completed and applied, then a stale and a malformed drop
C16_Witness ==
    /\ Len(hal.sent_heartbeats) = 2
    /\ hal.sent_heartbeats[1].applied = 1
    /\ hal.sent_heartbeats[1].rx_frames = 2
    /\ hal.sent_heartbeats[2].dropped_frames = 2
    /\ receiver.stats.rx_frames = 0


\* ids at the edges of the 32-bit range, as the int32 with the same bits
EdgeIds == {0, 1, 2, 65535, 65536, 2147483647, -2147483647 - 1, -2147483647, -2, -1}

\* (a - b) mod 2^32 lies in 1 .. 2^31 - 1, from the 16-bit halves of the
\* unsigned values
DiffInLowerHalf(a, b) ==
    LET al == a % 65536
        ah == (a \div 65536) % 65536
        bl == b % 65536
        bh == (b \div 65536) % 65536
        dl == (al - bl) % 65536
        dh == (ah - bh - (IF al < bl THEN 1 ELSE 0)) % 65536
    IN  dh <= 32767 /\ (dh > 0 \/ dl > 0)

(***************************************************************************)
(* C17  newer(a, b) is true iff (a - b) mod 2^32 lies in 1 .. 2^31 - 1; it *)
(* is irreflexive and for a # b never holds in both directions;            *)
(* newer(1, 0xFFFFFFFF) is true, so once frame 0xFFFFFFFF has been applied *)
(* in a session no packet of frame 1 of that session is dropped as stale,  *)
(* and the packet that completes frame 1 publishes it.                     *)
(***************************************************************************)
C17_NewerIsModular ==
    /\ \A a \in EdgeIds, b \in EdgeIds :
          /\ newer(a, b) <=> DiffInLowerHalf(a, b)
          /\ ~newer(a, a)
          /\ a # b => ~(newer(a, b) /\ newer(b, a))
    /\ newer(1, -1)
    /\ (receiver.session_initialized /\ receiver.last_applied_frame_id = -1)
       => \A run \in Runs :
             \A r1 \in {Handle(receiver, RunPacket(run, receiver.current_session_id, 1))} :
                /\ r1.stats.drops_stale = receiver.stats.drops_stale
                /\ r1.stats.complete_frames = receiver.stats.complete_frames + 1
                   => /\ r1.complete_frame # NULL
                      /\ r1.last_applied_frame_id = 1
                      /\ r1.slots[r1.complete_frame].rgb_data
                            = FullFrame(receiver.current_session_id, 1)

\* frame 0xFFFFFFFF and then frame 1 were published in the session
C17_Witness ==
    /\ pub_ids = <<-1, 1>>
    /\ receiver.last_applied_frame_id = 1
    /\ receiver.stats.drops_stale = 0


(***************************************************************************)
(* C18  Wakeup gate. A loop pass that starts with wakeup not complete does *)
(* no network_poll, no receiver call, no status_poll and no                *)
(* led_status_poll: the receiver, the queued datagrams, the heartbeats     *)
(* sent, the status and activity-LED state are all left as they were, and  *)
(* only wakeup_poll acts. A pass that starts with wakeup complete hands    *)
(* every queued datagram to the receiver.                                  *)
(***************************************************************************)
C18_WakeupGate ==
    \A after \in {loop(Program)} :
        IF ~wakeup_is_complete(wakeup)
        THEN /\ after.receiver = receiver
             /\ after.hal.packet_queue = hal.packet_queue
             /\ after.hal.sent_heartbeats = hal.sent_heartbeats
             /\ after.hal.status_led_state = hal.status_led_state
             /\ after.status = status
             /\ after.led_status = led_status
             /\ after.led_driver = led_driver
             /\ \A wp \in {wakeup_poll(wakeup, hal)} :
                   after.wakeup = wp.w /\ after.hal = wp.h
        ELSE /\ after.hal.packet_queue = <<>>
             /\ ReportedRx(after.hal.sent_heartbeats) + after.receiver.stats.rx_frames
                   = HandledSoFar + Len(hal.packet_queue)
             /\ after.wakeup = wakeup

\* half-way through the wakeup walk, with datagrams queued and none handled
C18_Witness ==
    /\ wakeup.current_state = "GAP_AFTER_RUN"
    /\ Len(hal.packet_queue) >= 2
    /\ receiver = receiver_init
    /\ hal.sent_heartbeats = <<>>


(***************************************************************************)
(* C19  Startup blackout. driver_ready_for_frames() is true iff the        *)
(* unsigned difference now - startup_time_ms is >= 1000, startup_time_ms   *)
(* being the time of driver_init. A loop pass made earlier than that takes *)
(* no frame from the receiver and shows nothing: a frame that is pending   *)
(* or completes in the pass stays pending, applied_frames, the display     *)
(* buffer, the show count and the displayed-frame count are unchanged.     *)
(***************************************************************************)
C19_StartupBlackout ==
    /\ driver_ready_for_frames(hal.simulated_time_ms, led_driver.startup_time_ms)
          <=> UnsignedDiffAtLeast(hal.simulated_time_ms, led_driver.startup_time_ms, 1000)
    /\ (/\ wakeup_is_complete(wakeup)
        /\ ~UnsignedDiffAtLeast(hal.simulated_time_ms, led_driver.startup_time_ms, 1000))
       => \A after \in {loop(Program)}, np \in {network_poll(receiver, hal)} :
             /\ after.receiver.complete_frame = np.r.complete_frame
             /\ after.receiver.slots = np.r.slots
             /\ ReportedApplied(after.hal.sent_heartbeats) + after.receiver.stats.applied_frames
                   = ReportedApplied(hal.sent_heartbeats) + receiver.stats.applied_frames
             /\ after.led_status.frame_count = led_status.frame_count
             /\ after.hal.led_buffer = hal.led_buffer
             /\ after.hal.show_count = hal.show_count

\* a frame completed during the blackout and is pending
C19_Witness ==
    /\ wakeup_is_complete(wakeup)
    /\ hal.simulated_time_ms < 1000
    /\ receiver.complete_frame # NULL
    /\ receiver.stats.complete_frames >= 1
    /\ receiver.stats.applied_frames = 0


(***************************************************************************)
(* The wakeup effect alone, on a millisecond clock, as the wakeup unit     *)
(* tests drive it. loop_ev records the walk: each state entered with its   *)
(* run index and time, the time of the first wakeup_poll call, whether a   *)
(* poll with the DMA idle was made in the current millisecond, and how     *)
(* many milliseconds have passed without one since the first poll.         *)
(***************************************************************************)
MaxWakeTime == 455

MaxMissed == 2

NoWalk == [walk |-> <<>>, first_poll |-> NULL, polled |-> FALSE, missed |-> 0]

Walked == IF loop_ev = NONE THEN NoWalk ELSE loop_ev

WakePoll ==
    /\ \E wp \in {wakeup_poll(wakeup, hal)} :
           /\ wakeup' = wp.w
           /\ hal' = wp.h
           /\ loop_ev' =
                 [walk |-> IF wp.w.current_state # wakeup.current_state
                           THEN Append(Walked.walk,
                                       <<wp.w.current_state, wp.w.current_run_index,
                                         hal.simulated_time_ms>>)
                           ELSE Walked.walk,
                  first_poll |-> IF Walked.first_poll = NULL
                                 THEN hal.simulated_time_ms ELSE Walked.first_poll,
                  polled |-> Walked.polled \/ ~hal.dma_busy,
                  missed |-> Walked.missed]
    /\ UNCHANGED <<receiver, led_driver, status, led_status, ready, pub_ids>>

WakeTick ==
    /\ hal.simulated_time_ms < MaxWakeTime
    /\ hal' = [hal EXCEPT !.simulated_time_ms = Add32(@, 1)]
    /\ \/ Walked.polled
       \/ Walked.first_poll = NULL /\ hal.simulated_time_ms < MaxMissed
       \/ Walked.first_poll # NULL /\ Walked.missed < MaxMissed
    /\ loop_ev' = [Walked EXCEPT !.polled = FALSE,
                                 !.missed = IF Walked.polled \/ Walked.first_poll = NULL
                                            THEN @ ELSE @ + 1]
    /\ UNCHANGED <<receiver, led_driver, wakeup, status, led_status, ready, pub_ids>>

NextWake == WakePoll \/ WakeTick \/ DmaDone

SpecWake == Init /\ [][NextWake]_vars

\* the states of the walk after IDLE, with their run index, for n runs
RECURSIVE WalkOf(_)
WalkOf(n) ==
    IF n = 1 THEN << <<"LIGHTING_RUN", 0>> >>
    ELSE WalkOf(n - 1) \o << <<"GAP_AFTER_RUN", n - 1>>, <<"LIGHTING_RUN", n - 1>> >>

ExpectedWalk == WalkOf(RUN_COUNT) \o << <<"COMPLETE", RUN_COUNT>> >>

NominalDuration == RUN_COUNT * 200 + (RUN_COUNT - 1) * 50

\* a poll with the DMA idle was made in every millisecond up to LastPollTime
Steady == Walked.missed = 0

LastPollTime ==
    IF Walked.polled THEN hal.simulated_time_ms ELSE hal.simulated_time_ms - 1

(***************************************************************************)
(* C20  Wakeup walk order and timing. The states entered are, in order,    *)
(* LIGHTING_RUN for run 0, then GAP_AFTER_RUN and LIGHTING_RUN for each    *)
(* following run in index order, then COMPLETE; every LIGHTING_RUN phase   *)
(* lasts at least 200 ms and every GAP_AFTER_RUN at least 50 ms; wakeup is *)
(* never complete earlier than R*200 + (R-1)*50 ms after the first poll,   *)
(* and with a poll in every millisecond and the DMA idle it is complete    *)
(* exactly from that time on.                                              *)
(***************************************************************************)
C20_WakeupWalk ==
    LET walk == Walked.walk
        n    == Len(walk)
    IN  /\ n <= Len(ExpectedWalk)
        /\ \A i \in 1..n : <<walk[i][1], walk[i][2]>> = ExpectedWalk[i]
        /\ IF n = 0
           THEN wakeup.current_state = "IDLE" /\ wakeup.current_run_index = 0
           ELSE /\ wakeup.current_state = walk[n][1]
                /\ wakeup.current_run_index = walk[n][2]
        /\ \A i \in 1..(n - 1) :
              walk[i + 1][3] - walk[i][3]
                  >= (IF walk[i][1] = "LIGHTING_RUN" THEN 200 ELSE 50)
        /\ wakeup_is_complete(wakeup)
              => walk[n][3] - Walked.first_poll >= NominalDuration
        /\ (Steady /\ Walked.first_poll # NULL)
              => /\ wakeup_is_complete(wakeup)
                       <=> LastPollTime - Walked.first_poll >= NominalDuration
                 /\ wakeup_is_complete(wakeup)
                       => walk[n][3] - Walked.first_poll = NominalDuration

\* the walk completed at the nominal time, polled in every millisecond
C20_Witness ==
    /\ wakeup_is_complete(wakeup)
    /\ Steady
    /\ Len(Walked.walk) = Len(ExpectedWalk)
    /\ Walked.first_poll = 1


\* the HAL at a later time: the clock moved on by d ms (mod 2^32), the DMA
\* idle or not
LaterDelays == {0, 1, 200, 250, 2147483647, -1}

HalLater(h, d, busy) ==
    [h EXCEPT !.simulated_time_ms = Add32(@, d), !.dma_busy = busy]

(***************************************************************************)
(* C21  COMPLETE is absorbing. Once wakeup_is_complete() is true, a        *)
(* wakeup_poll call at any later time, with the DMA idle or busy, leaves   *)
(* wakeup complete, changes no wakeup state, writes no pixel and does not  *)
(* call show() (the show count is unchanged); as the state after the call  *)
(* is the state before it, this holds for any number of calls.             *)
(***************************************************************************)
C21_CompleteAbsorbing ==
    wakeup_is_complete(wakeup) =>
        \A d \in LaterDelays, busy \in BOOLEAN :
            \A h \in {HalLater(hal, d, busy)} :
                \A wp \in {wakeup_poll(wakeup, h)} :
                    /\ wakeup_is_complete(wp.w)
                    /\ wp.w = wakeup
                    /\ wp.h.led_buffer = h.led_buffer
                    /\ wp.h.show_count = h.show_count
                    /\ wp.h = h

\* wakeup completed, the DMA of its last show() is over, and wakeup_poll
\* was called again in a later millisecond
C21_Witness ==
    /\ wakeup_is_complete(wakeup)
    /\ ~hal.dma_busy
    /\ Walked.polled
    /\ hal.simulated_time_ms > Walked.walk[Len(Walked.walk)][3]


(***************************************************************************)
(* C22  The DMA is never disturbed mid-transfer. While leds_busy() is      *)
(* true, a pass of loop() (whether it polls the wakeup effect or handles a *)
(* ready frame) writes no pixel and does not call show(); a wakeup_poll    *)
(* call made while busy changes no wakeup state (state, run index, timer)  *)
(* and nothing in the HAL; so driver_show_frame runs in a pass only when   *)
(* that pass found busy() false.                                           *)
(***************************************************************************)
C22_DmaNotDisturbed ==
    hal.dma_busy =>
        /\ \A after \in {loop(Program)} :
              /\ after.hal.led_buffer = hal.led_buffer
              /\ after.hal.show_count = hal.show_count
              /\ after.hal.dma_busy
              /\ after.wakeup = wakeup
        /\ \A wp \in {wakeup_poll(wakeup, hal)} :
              wp.w = wakeup /\ wp.h = hal

\* past wakeup and blackout, a frame is ready for the pass while the DMA of
\* the previous show() is still running
C22_Witness ==
    /\ hal.dma_busy
    /\ wakeup_is_complete(wakeup)
    /\ driver_ready_for_frames(hal.simulated_time_ms, led_driver.startup_time_ms)
    /\ receiver_get_complete_frame_result(network_poll(receiver, hal).r) # NULL


(***************************************************************************)
(* The activity LED alone, as the integration tests drive it: the clock    *)
(* advances, led_status_poll and led_status_frame_displayed are called.    *)
(* The number of frames displayed since boot does not fit 32 bits for      *)
(* ever, so it is kept as <<w, a, b>> = w * 2^32 + a * 2^16 + b. A         *)
(* behaviour starts either at boot or at a device that has already         *)
(* displayed a number of frames, all of them but the first with the pin    *)
(* off; loop_ev records that frame number, the pin writes of the last      *)
(* led_status_frame_displayed call, and every led_status_poll call made    *)
(* before the first frame as <<time, pin before, pin after>>.              *)
(***************************************************************************)
MaxLedTime == 1500

MaxLedPolls == 4

MaxLedFrames == 5

LedSteps == {250, 500}

\* frames displayed since boot at the start of a behaviour
LedStartFrames == { <<0, 0, 0>>, <<0, 0, 57>>, <<0, 0, 597>>, <<0, 65535, 65533>> }

NextFrameNumber(n) ==
    IF n[3] < 65535 THEN <<n[1], n[2], n[3] + 1>>
    ELSE IF n[2] < 65535 THEN <<n[1], n[2] + 1, 0>>
    ELSE <<n[1] + 1, 0, 0>>

\* the uint32_t frame_count after n frames
FrameCountAfter(n) ==
    (IF n[2] >= 32768 THEN n[2] - 65536 ELSE n[2]) * 65536 + n[3]

InitLed ==
    /\ hal = [simulated_time_ms |-> 0, packet_queue |-> <<>>,
              led_buffer |-> driver_show_black, show_count |-> 1,
              dma_busy |-> TRUE, status_led_state |-> FALSE,
              sent_heartbeats |-> <<>>]
    /\ led_driver = [startup_time_ms |-> 0]
    /\ wakeup = wakeup_init(0)
    /\ receiver = receiver_init
    /\ status = status_init(0)
    /\ ready = NONE
    /\ pub_ids = <<>>
    /\ \E n \in LedStartFrames :
          /\ led_status = [led_status_init(0) EXCEPT
                              !.first_frame_received = (n # <<0, 0, 0>>),
                              !.frame_count = FrameCountAfter(n)]
          /\ loop_ev = [shown |-> n, start |-> n, calls |-> 0,
                        pin |-> <<>>, polls |-> <<>>]

LedPoll ==
    /\ led_status.first_frame_received \/ Len(loop_ev.polls) < MaxLedPolls
    /\ \E lp \in {led_status_poll(led_status, hal)} :
          /\ led_status' = lp.ls
          /\ hal' = lp.h
          /\ loop_ev' = IF led_status.first_frame_received THEN loop_ev
                        ELSE [loop_ev EXCEPT !.polls =
                                 Append(@, <<hal.simulated_time_ms,
                                             hal.status_led_state,
                                             lp.h.status_led_state>>)]
    /\ UNCHANGED <<receiver, led_driver, wakeup, status, ready, pub_ids>>

LedFrame ==
    /\ loop_ev.calls < MaxLedFrames
    /\ \E ld \in {led_status_frame_displayed(led_status, hal)} :
          /\ led_status' = ld.ls
          /\ hal' = ld.h
          /\ loop_ev' = [loop_ev EXCEPT !.shown = NextFrameNumber(@),
                                        !.calls = @ + 1,
                                        !.pin = ld.pin]
    /\ UNCHANGED <<receiver, led_driver, wakeup, status, ready, pub_ids>>

LedTick ==
    /\ hal.simulated_time_ms < MaxLedTime
    /\ \E d \in LedSteps :
          hal' = [hal EXCEPT !.simulated_time_ms = Add32(@, d)]
    /\ UNCHANGED <<receiver, led_driver, wakeup, status, led_status,
                   ready, pub_ids, loop_ev>>

NextLed == LedPoll \/ LedFrame \/ LedTick

SpecLed == InitLed /\ [][NextLed]_vars


\* clock advances tried for one further call, up to and past the blink
\* interval and into the upper half of the 32-bit range
LedDelays == {0, 1, 249, 250, 499, 500, 501, 2147483647, -2147483647 - 1, -1}

\* the time of the last pin change made by a poll, or of led_status_init
LastToggleTime ==
    LET polls   == loop_ev.polls
        toggled == {i \in 1..Len(polls) : polls[i][2] # polls[i][3]}
    IN  IF toggled = {} THEN 0
        ELSE polls[CHOOSE i \in toggled : \A j \in toggled : j <= i][1]

(***************************************************************************)
(* C23  Slow blink. Before the first displayed frame the pin is off until  *)
(* the first toggle, and a led_status_poll call toggles the pin exactly    *)
(* when at least 500 ms (unsigned 32-bit difference) have elapsed since    *)
(* the previous toggle, or since led_status_init if there was none, and    *)
(* leaves it unchanged otherwise; a call writes the pin at most once; and  *)
(* with polls at 500, 1000, 1500, ... ms the pin goes on, off, on, ...     *)
(***************************************************************************)
C23_SlowBlink ==
    ~led_status.first_frame_received =>
        LET polls == loop_ev.polls
        IN  /\ (\A i \in 1..Len(polls) : polls[i][2] = polls[i][3])
                  => ~hal.status_led_state
            /\ \A d \in LedDelays :
                  \A h \in {HalLater(hal, d, hal.dma_busy)} :
                     \A lp \in {led_status_poll(led_status, h)} :
                        /\ Len(lp.pin) <= 1
                        /\ IF UnsignedDiffAtLeast(h.simulated_time_ms,
                                                  LastToggleTime, 500)
                           THEN /\ lp.pin = << ~hal.status_led_state >>
                                /\ lp.h.status_led_state = ~hal.status_led_state
                           ELSE /\ lp.pin = <<>>
                                /\ lp.h.status_led_state = hal.status_led_state
            /\ (\A i \in 1..Len(polls) : polls[i][1] = 500 * i)
                  => \A i \in 1..Len(polls) : polls[i][3] = (i % 2 = 1)

\* polled at 500, 1000 and 1500 ms with no frame yet: the pin went on, off, on
C23_Witness ==
    /\ ~led_status.first_frame_received
    /\ Len(loop_ev.polls) = 3
    /\ \A i \in 1..3 : loop_ev.polls[i][1] = 500 * i
    /\ hal.status_led_state


(***************************************************************************)
(* C24  The pin is latched off by the first frame. A                       *)
(* led_status_frame_displayed call returns with the pin off, whether the   *)
(* slow blink had left it on or off; from then on the pin is off at the    *)
(* return of every led_status_frame_displayed and led_status_poll call,    *)
(* however much time has passed, and led_status_poll does not write it.    *)
(***************************************************************************)
C24_LatchedOff ==
    /\ led_status.first_frame_received => ~hal.status_led_state
    /\ \A d \in LedDelays :
          \A h \in {HalLater(hal, d, hal.dma_busy)} :
             /\ \A ld \in {led_status_frame_displayed(led_status, h)} :
                   /\ ld.ls.first_frame_received
                   /\ ~ld.h.status_led_state
             /\ led_status.first_frame_received =>
                   \A lp \in {led_status_poll(led_status, h)} :
                      /\ lp.pin = <<>>
                      /\ ~lp.h.status_led_state
                      /\ lp.ls = led_status

\* the first frame arrived while the slow blink had the pin on, and at
\* least a blink interval has passed since
C24_Witness ==
    /\ led_status.first_frame_received
    /\ loop_ev.start = <<0, 0, 0>>
    /\ Len(loop_ev.polls) > 0
    /\ loop_ev.polls[Len(loop_ev.polls)][3]
    /\ hal.simulated_time_ms - loop_ev.polls[Len(loop_ev.polls)][1] >= 500


\* the pin writes of a call end with a pulse: on, then off
EndsWithPulse(pin) ==
    Len(pin) >= 2 /\ pin[Len(pin) - 1] /\ ~pin[Len(pin)]

\* frame numbers 60, 120, ..., 600, counting displayed frames from 1
PulseFrameNumbers == { <<0, 0, PULSE_EVERY * k>> : k \in 1..(PULSE_FRAMES \div PULSE_EVERY) }

(***************************************************************************)
(* C25  Activity pulses. Counting displayed frames from 1,                 *)
(* led_status_frame_displayed emits a pulse (pin on, delay, pin off) on    *)
(* exactly the frames numbered 60, 120, ..., 600 and on no other frame,    *)
(* also once the 32-bit frame counter has wrapped.                         *)
(***************************************************************************)
C25_PulsesFirst600Only ==
    loop_ev.calls > 0 =>
        (EndsWithPulse(loop_ev.pin) <=> loop_ev.shown \in PulseFrameNumbers)


\* LED buffers a frame may be shown over: the present one, and one with
\* every LED of every strip lit
LitBuffer == [p \in 0..(NUM_STRIPS * MAX_LEDS - 1) |-> WARM_WHITE]

BuffersBefore == {hal.led_buffer, LitBuffer}

\* the frame buffers of the receiver's slots
SlotFrames == {receiver.slots[i].rgb_data : i \in DOMAIN receiver.slots}

\* the k-th RGB triple of run s in a frame
TripleOf(rgb, s, k) ==
    <<Region(rgb, s)[3 * k + 1], Region(rgb, s)[3 * k + 2], Region(rgb, s)[3 * k + 3]>>

(***************************************************************************)
(* C26  driver_show_frame is a total overwrite. After                      *)
(* driver_show_frame(rgb), for every strip s in 0..7 and index k in        *)
(* 0..MAX_LEDS-1 the LED is the k-th RGB triple of run s in rgb if         *)
(* s < RUN_COUNT and k < LED_COUNT[s], and black otherwise; the result is  *)
(* the same whatever the LEDs were before the call, and show() is called   *)
(* exactly once.                                                           *)
(***************************************************************************)
C26_ShowFrameOverwrites ==
    \A rgb \in SlotFrames :
        /\ \A leds \in BuffersBefore :
              \A after \in {leds_show([hal EXCEPT !.led_buffer = leds],
                                      driver_show_frame_pixels(leds, rgb))} :
                 /\ \A s \in 0..(NUM_STRIPS - 1), k \in 0..(MAX_LEDS - 1) :
                       after.led_buffer[s * MAX_LEDS + k] =
                          IF s < RUN_COUNT /\ k < LED_COUNT[s + 1]
                          THEN TripleOf(rgb, s, k)
                          ELSE BLACK
                 /\ after.led_buffer = driver_show_frame(rgb)
                 /\ after.show_count = hal.show_count + 1
        /\ \A l1 \in BuffersBefore, l2 \in BuffersBefore :
              driver_show_frame_pixels(l1, rgb) = driver_show_frame_pixels(l2, rgb)

\* a pass of loop() has displayed an assembled frame, and the receiver
\* holds frame data that differs from what the LEDs show
C26_Witness ==
    /\ loop_ev # NONE
    /\ loop_ev.shown # NONE
    /\ hal.led_buffer = driver_show_frame(loop_ev.shown)
    /\ hal.led_buffer[0] # BLACK
    /\ \E rgb \in SlotFrames : driver_show_frame(rgb) # hal.led_buffer


\* sessions and frame ids a sender may use for the next frame
NextSessions == {0, 1, 2}

NextFrameIds == {0, 1, 2, 3, -1}

\* the R run packets of frame (s, f) queued in the order q
QueuedFrame(s, f, q) == [i \in 1..RUN_COUNT |-> RunPacket(q[i], s, f)]

\* frame (s, f) carries a new session id, or an id newer than the last
\* applied one
EligibleFrame(r, s, f) ==
    \/ ~r.session_initialized
    \/ s # r.current_session_id
    \/ DiffInLowerHalf(f, r.last_applied_frame_id)

\* The program fed by a sender whose frame ids are at the 32-bit wrap:
\* 0xFFFFFFFF, then 0.
WrapFrameIds == {-1, 0}

WrapPackets == {RunPacket(run, TheSession, f) : run \in Runs, f \in WrapFrameIds}

InjectWrap ==
    \E pkt \in WrapPackets :
        /\ Len(hal.packet_queue) < MaxQueue
        /\ HandledSoFar + Len(hal.packet_queue) < MaxLoopRx
        /\ hal' = inject_packet(hal, pkt)
        /\ UNCHANGED <<receiver, led_driver, wakeup, status, led_status,
                       ready, pub_ids, loop_ev>>

NextLoopWrap == Loop \/ Tick \/ InjectWrap \/ DmaDone

SpecLoopWrap == Init /\ [][NextLoopWrap]_vars

LoopIsOpen ==
    /\ wakeup_is_complete(wakeup)
    /\ driver_ready_for_frames(hal.simulated_time_ms, led_driver.startup_time_ms)
    /\ ~hal.dma_busy

(***************************************************************************)
(* C27  End-to-end response. Once wakeup is complete, the blackout has     *)
(* elapsed and the DMA is idle, if the R run packets of an eligible frame  *)
(* (new session, or newer than the last applied id) are queued in any      *)
(* order and nothing else is queued, then at the end of one pass of loop() *)
(* the LEDs show that frame's colours, show() has been called once, and    *)
(* led_status_frame_displayed has been notified.                           *)
(***************************************************************************)
C27_EndToEnd ==
    LoopIsOpen =>
        \A s \in NextSessions, f \in NextFrameIds, q \in RunOrders :
            EligibleFrame(receiver, s, f) =>
                \A before \in {[Program EXCEPT !.hal.packet_queue = QueuedFrame(s, f, q)]} :
                    \A after \in {loop(before)} :
                        /\ \A run \in Runs :
                              \A k \in 0..(LED_COUNT[run + 1] - 1) :
                                 after.hal.led_buffer[run * MAX_LEDS + k]
                                     = TripleOf(FullFrame(s, f), run, k)
                        /\ after.hal.show_count = hal.show_count + 1
                        /\ after.hal.packet_queue = <<>>
                        /\ after.led_status.first_frame_received
                        /\ after.led_status.frame_count
                              = Add32(led_status.frame_count, 1)

(***************************************************************************)
(* C28  I1 as stated: in every reachable receiver state no two slots have  *)
(* the same value in their frame_id fields.                                *)
(***************************************************************************)
C28_NoDuplicateFrameIdFields ==
    \A i \in DOMAIN receiver.slots, j \in DOMAIN receiver.slots :
        i # j => receiver.slots[i].frame_id # receiver.slots[j].frame_id

(***************************************************************************)
(* C28 (amended)  I1 over the slots that hold a frame: in every reachable  *)
(* receiver state no two in-use slots have the same frame_id. The frame_id *)
(* field of a slot that is not in use is a leftover (0 after               *)
(* receiver_init and clear_slots, the last frame's id after completion)    *)
(* and may repeat. The same holds after one more packet of any kind, in    *)
(* particular one that evicts a slot.                                      *)
(***************************************************************************)
DistinctInUse(r) ==
    \A i \in SlotsInUse(r), j \in SlotsInUse(r) :
        i # j => r.slots[i].frame_id # r.slots[j].frame_id

C28_NoDuplicateInUse ==
    /\ DistinctInUse(receiver)
    /\ \A pkt \in Packets : DistinctInUse(Handle(receiver, pkt))

\* both slots hold a partial frame, so that a packet of a third frame evicts
C28_Witness ==
    /\ SlotsInUse(receiver) = DOMAIN receiver.slots
    /\ \A i \in DOMAIN receiver.slots : receiver.slots[i].received_mask # 0


\* uint8_t run indexes: the configured runs, those just beyond, the bit
\* positions of a uint8_t mask and past them, and the top of the range
RunIndexes == (0..9) \cup {127, 128, 254, 255}

\* a datagram of each run's length, arriving with run index ri
OnRunIndex(ri) ==
    {[run_index |-> ri, data |-> RunPacket(run, TheSession, 2).data] : run \in Runs}

\* only bits 0..R-1 are set in the mask of every in-use slot
MaskWithinExpected(r) ==
    \A i \in SlotsInUse(r) :
        /\ r.slots[i].received_mask \in 0..255
        /\ \A b \in 0..7 : BitSet(r.slots[i].received_mask, b) => b < RUN_COUNT

(***************************************************************************)
(* C29  I2: in every reachable receiver state every in-use slot has        *)
(* received_mask & ~EXPECTED_MASK == 0, that is only bits 0..R-1 set; and  *)
(* this still holds after one more datagram on a run index from 0 to 255.  *)
(***************************************************************************)
C29_MaskWithinExpected ==
    /\ MaskWithinExpected(receiver)
    /\ \A ri \in RunIndexes :
          \A pkt \in OnRunIndex(ri) : MaskWithinExpected(Handle(receiver, pkt))

\* a slot holds the highest run of a frame, and a datagram on a run index
\* beyond the configured runs has been handled
C29_Witness ==
    /\ \E i \in SlotsInUse(receiver) :
          BitSet(receiver.slots[i].received_mask, RUN_COUNT - 1)
    /\ receiver.stats.drops_len > 0


(***************************************************************************)
(* C30  The receiver is never wedged. From every reachable receiver state  *)
(* (any slot occupancy, any pending ready frame, any counters)             *)
(* receiver_handle_packet returns for every datagram, counting it; and     *)
(* delivering one after the other, in any order, the R run packets of a    *)
(* frame that carries a new session id or an id newer than                 *)
(* last_applied_frame_id ends with that frame published as the ready       *)
(* frame: the ready pointer designates a buffer holding the frame's RGB    *)
(* data, and last_applied_frame_id is the frame's id.                      *)
(***************************************************************************)
C30_NeverWedged ==
    /\ \A pkt \in Packets \cup UNION {OnRunIndex(ri) : ri \in RunIndexes} :
          Handle(receiver, pkt).stats.rx_frames = receiver.stats.rx_frames + 1
    /\ \A s \in NextSessions, f \in NextFrameIds, q \in RunOrders :
          EligibleFrame(receiver, s, f) =>
              \A last \in {Deliver(receiver, s, f, q)} :
                  /\ last.complete_frame # NULL
                  /\ last.slots[last.complete_frame].rgb_data = FullFrame(s, f)
                  /\ last.last_applied_frame_id = f
                  /\ last.current_session_id = s
                  /\ last.stats.complete_frames = receiver.stats.complete_frames + 1


\* two receivers no caller can tell apart: equal but for the text left in
\* error_buffer, which receiver_get_last_error does not return
SameReceiver(a, b) ==
    /\ [a EXCEPT !.error_buffer = <<>>] = [b EXCEPT !.error_buffer = <<>>]
    /\ receiver_get_last_error(a) = receiver_get_last_error(b)

(***************************************************************************)
(* C31  receiver_init is a full reset. Called in any reachable state it    *)
(* leaves both slots not in use with frame_id 0, mask 0 and zeroed RGB,    *)
(* the session not initialised with current_session_id 0,                  *)
(* last_applied_frame_id 0, no ready frame, all counters 0 and no latched  *)
(* error, as the first initialisation does; and what the receiver does     *)
(* with the packets that follow is what a freshly booted receiver does.    *)
(***************************************************************************)
C31_InitIsFullReset ==
    \A again \in {receiver_init_again(receiver)} :
        /\ \A i \in DOMAIN again.slots :
              /\ ~again.slots[i].in_use
              /\ again.slots[i].frame_id = 0
              /\ again.slots[i].received_mask = 0
              /\ again.slots[i].rgb_data = Zeros(calculate_frame_size)
        /\ ~again.session_initialized
        /\ again.current_session_id = 0
        /\ again.last_applied_frame_id = 0
        /\ again.complete_frame = NULL
        /\ \A c \in DOMAIN again.stats : again.stats[c] = 0
        /\ receiver_get_last_error(again) = <<>>
        /\ SameReceiver(again, receiver_init)
        /\ \A p1 \in Packets :
              /\ SameReceiver(Handle(again, p1), Handle(receiver_init, p1))
              /\ p1 \in MalformedPackets =>
                    \A p2 \in LoopPackets :
                       SameReceiver(Handle(Handle(again, p1), p2),
                                    Handle(Handle(receiver_init, p1), p2))

\* a receiver with a pending ready frame, a partial frame in a slot, a
\* latched error and counters running
C31_Witness ==
    /\ receiver.complete_frame # NULL
    /\ SlotsInUse(receiver) # {}
    /\ receiver.has_error
    /\ receiver.last_applied_frame_id # 0
    /\ receiver.stats.rx_frames > 0


\* frame ids a packet may ask a slot for
SlotFrameIds == FrameIds \cup {3}

(***************************************************************************)
(* C32  Slot selection. For a packet with frame id f: (1) if an in-use     *)
(* slot already holds f, that slot is used and no slot is changed, so its  *)
(* mask and RGB are kept; (2) otherwise the lowest-index slot not in use   *)
(* is taken; (3) otherwise, with both slots in use, the slot whose         *)
(* frame_id is older (modular comparison) is evicted. In (2) and (3) the   *)
(* chosen slot gets frame_id f, mask 0, in_use true and an all-zero RGB    *)
(* region, and every other slot is left completely unchanged.              *)
(***************************************************************************)
C32_SlotSelection ==
    \A f \in SlotFrameIds :
        \A sel \in {find_or_allocate_slot(receiver.slots, f)} :
            LET slots   == receiver.slots
                holding == {i \in SlotsInUse(receiver) : slots[i].frame_id = f}
                free    == DOMAIN slots \ SlotsInUse(receiver)
            IN  /\ sel.idx \in DOMAIN slots
                /\ \A i \in DOMAIN slots \ {sel.idx} : sel.slots[i] = slots[i]
                /\ IF holding # {}
                   THEN /\ sel.idx \in holding
                        /\ sel.slots = slots
                   ELSE /\ sel.slots[sel.idx] =
                              [frame_id |-> f, received_mask |-> 0, in_use |-> TRUE,
                               rgb_data |-> Zeros(calculate_frame_size)]
                        /\ IF free # {}
                           THEN sel.idx \in free /\ \A i \in free : sel.idx <= i
                           ELSE \A i \in DOMAIN slots \ {sel.idx} :
                                   DiffInLowerHalf(slots[i].frame_id,
                                                   slots[sel.idx].frame_id)

\* both slots hold a partial frame and the first slot's is the newer one,
\* so a third frame evicts the second slot
C32_Witness ==
    /\ SlotsInUse(receiver) = DOMAIN receiver.slots
    /\ DiffInLowerHalf(receiver.slots[0].frame_id, receiver.slots[1].frame_id)


(***************************************************************************)
(* The wakeup effect under the scheduling of the program: loop() calls     *)
(* wakeup_poll on every pass, millis() keeps advancing, and the DMA        *)
(* transfer a show() started comes to an end.                              *)
(***************************************************************************)
SpecWakeLive ==
    /\ SpecWake
    /\ WF_vars(WakePoll)
    /\ WF_vars(WakeTick)
    /\ WF_vars(DmaDone)

\* builds the firmware can be configured for
RunCounts == 1..8

\* transitions left before COMPLETE in a build with n runs
WakeRank(w, n) ==
    IF w.current_state = "IDLE" THEN 2 * n
    ELSE IF w.current_state = "LIGHTING_RUN" THEN 2 * (n - w.current_run_index) - 1
    ELSE IF w.current_state = "GAP_AFTER_RUN" THEN 2 * (n - w.current_run_index)
    ELSE 0

\* the wakeup states of a build with n runs, entered at time 0
WakeStates(n) ==
    {[current_state |-> "IDLE", current_run_index |-> 0, state_start_time_ms |-> 0],
     [current_state |-> "COMPLETE", current_run_index |-> n, state_start_time_ms |-> 0]}
    \cup {[current_state |-> st, current_run_index |-> i, state_start_time_ms |-> 0] :
             st \in {"LIGHTING_RUN"}, i \in 0..(n - 1)}
    \cup {[current_state |-> st, current_run_index |-> i, state_start_time_ms |-> 0] :
             st \in {"GAP_AFTER_RUN"}, i \in 1..(n - 1)}

\* every idle-DMA poll late enough moves a build with 1..8 runs one
\* transition closer to COMPLETE, and a poll that is too early changes nothing
EveryBuildAdvances ==
    \A n \in RunCounts :
        \A w \in WakeStates(n) :
            /\ \A late \in {200, 201, 250, 2147483647, -1} :
                  \A w2 \in {wakeup_transition(w, late, n)} :
                     /\ WakeRank(w2, n) = (IF WakeRank(w, n) = 0 THEN 0
                                           ELSE WakeRank(w, n) - 1)
                     /\ w2 \in {[v EXCEPT !.state_start_time_ms = t] :
                                   v \in WakeStates(n), t \in {0, late}}
            /\ w.current_state = "GAP_AFTER_RUN" =>
                  wakeup_transition(w, 49, n) = w
            /\ w.current_state = "LIGHTING_RUN" =>
                  wakeup_transition(w, 199, n) = w

(***************************************************************************)
(* C33  Wakeup terminates. With wakeup_poll called on every pass, the      *)
(* clock advancing and the DMA idle again after each show(),               *)
(* wakeup_is_complete() eventually becomes true; wakeup_poll changes the   *)
(* wakeup state as the transition function of the configured build does,   *)
(* and in a build with any RUN_COUNT in 1..8 every transition brings       *)
(* COMPLETE one step closer.                                               *)
(***************************************************************************)
C33_WakeupTerminates ==
    /\ <>wakeup_is_complete(wakeup)
    /\ [](/\ EveryBuildAdvances
          /\ ~hal.dma_busy =>
                wakeup_poll(wakeup, hal).w
                   = wakeup_transition(wakeup, hal.simulated_time_ms, RUN_COUNT))

\* the walk has reached COMPLETE with wakeup_poll having found the DMA busy
\* on the way
C33_Witness ==
    /\ wakeup_is_complete(wakeup)
    /\ Walked.missed > 0


(***************************************************************************)
(* C34: the LED pattern of the wakeup effect                               *)
(***************************************************************************)
\* the LED buffer with exactly the LEDs of the runs in lit at warm white
PatternOf(lit) ==
    [p \in 0..(NUM_STRIPS * MAX_LEDS - 1) |->
        IF /\ (p \div MAX_LEDS) \in lit
           /\ (p % MAX_LEDS) < LED_COUNT[(p \div MAX_LEDS) + 1]
        THEN WARM_WHITE ELSE BLACK]

\* the runs with at least one LED of the buffer that is not black
LitRuns(leds) ==
    {run \in Runs : \E k \in 0..(LED_COUNT[run + 1] - 1) :
                        leds[run * MAX_LEDS + k] # BLACK}

\* C34: in every state reached by wakeup_poll calls from the all-black LEDs
\* of driver_init at most one run is lit; in LIGHTING_RUN the run
\* current_run_index, which is in 0..RUN_COUNT-1, has all its LEDs at warm
\* white (128,100,64) and every other LED is black; in GAP_AFTER_RUN and in
\* COMPLETE (and in IDLE) every LED is black.
C34_WakeupPattern ==
    /\ Cardinality(LitRuns(hal.led_buffer)) <= 1
    /\ wakeup.current_state = "LIGHTING_RUN"
          => /\ wakeup.current_run_index \in Runs
             /\ hal.led_buffer = PatternOf({wakeup.current_run_index})
             /\ \A k \in 0..(LED_COUNT[wakeup.current_run_index + 1] - 1) :
                    hal.led_buffer[wakeup.current_run_index * MAX_LEDS + k]
                        = <<128, 100, 64>>
    /\ wakeup.current_state \in {"IDLE", "GAP_AFTER_RUN", "COMPLETE"}
          => hal.led_buffer = PatternOf({})

\* the last run is lit after the first one was lit and cleared
C34_Witness ==
    /\ wakeup.current_state = "LIGHTING_RUN"
    /\ wakeup.current_run_index = RUN_COUNT - 1
    /\ LitRuns(hal.led_buffer) = {RUN_COUNT - 1}
    /\ Len(Walked.walk) >= 3


(***************************************************************************)
(* C35: a session boundary and a pending ready frame                       *)
(***************************************************************************)
\* a published frame is waiting, its buffer still holding its full payload
PendingIntact(r, g) ==
    /\ g # NONE
    /\ r.complete_frame # NULL
    /\ r.slots[r.complete_frame].rgb_data = FullFrame(g.session_id, g.frame_id)

\* what the next receiver_get_complete_frame hands out is nothing, or the
\* complete payload of a frame of session s
NoneOrFrameOf(r, s) ==
    \/ receiver_get_complete_frame_result(r) = NULL
    \/ \E f \in FrameIds :
           r.slots[receiver_get_complete_frame_result(r)].rgb_data = FullFrame(s, f)

\* C35: if a frame of session s was published and not yet consumed when a
\* packet of a different session arrives, a later receiver_get_complete_frame
\* never returns the old frame's pointer with altered content: it returns
\* none or a complete frame of the new session, and applied_frames is not
\* incremented for a buffer the session change cleared.
C35_SessionChangeDropsPending ==
    \A pkt \in ValidPackets :
        (PendingIntact(receiver, ready) /\ PktSession(pkt) # ready.session_id)
            => \A after \in {Handle(receiver, pkt)} :
                  /\ NoneOrFrameOf(after, PktSession(pkt))
                  /\ receiver_get_complete_frame(after).stats.applied_frames
                        > after.stats.applied_frames
                     => after.slots[after.complete_frame].rgb_data
                            # clear_slots(after.slots)[after.complete_frame].rgb_data


(***************************************************************************)
(* The receiver API with the counters that receiver_get_and_reset_stats    *)
(* has returned since receiver_init summed in loop_ev.                     *)
(***************************************************************************)
MaxDrains == 2

NoDrain == [drains |-> 0, complete |-> 0, applied |-> 0]

Drained == IF loop_ev = NONE THEN NoDrain ELSE loop_ev

TotalHandle == \E pkt \in Packets : HandlePacket(pkt) /\ UNCHANGED <<pub_ids, loop_ev>>

TotalGet == GetCompleteFrame /\ UNCHANGED <<pub_ids, loop_ev>>

TotalStats ==
    /\ Drained.drains < MaxDrains
    /\ GetAndResetStats
    /\ loop_ev' =
          [drains |-> Drained.drains + 1,
           complete |-> Drained.complete
                           + receiver_get_and_reset_stats_result(receiver).complete_frames,
           applied |-> Drained.applied
                           + receiver_get_and_reset_stats_result(receiver).applied_frames]
    /\ UNCHANGED pub_ids

NextTotal == TotalHandle \/ TotalGet \/ TotalStats

SpecTotal == Init /\ [][NextTotal]_vars

TotalComplete == Drained.complete + receiver.stats.complete_frames

TotalApplied == Drained.applied + receiver.stats.applied_frames

\* C36: the applied frames summed over all stat drains since receiver_init
\* are at most the completed frames summed the same way, a pending ready
\* frame being one more completion not yet applied; within one window
\* applied_frames exceeds complete_frames by at most one frame, and that
\* frame completed in an earlier window.
C36_AppliedAtMostComplete ==
    /\ TotalApplied <= TotalComplete
    /\ receiver.complete_frame # NULL => TotalApplied + 1 <= TotalComplete
    /\ receiver.stats.applied_frames > receiver.stats.complete_frames
          => /\ receiver.stats.applied_frames = receiver.stats.complete_frames + 1
             /\ Drained.complete > Drained.applied

\* a frame completed in one window is taken in the next, where another
\* frame completed and was taken too
C36_Witness ==
    /\ Drained.complete = 1
    /\ Drained.applied = 0
    /\ receiver.stats.complete_frames = 1
    /\ receiver.stats.applied_frames = 2


(***************************************************************************)
(* C37: packet accounting                                                  *)
(***************************************************************************)
\* drops_len + drops_stale + complete_frames of a ReceiverStats value
Outcomes(stats) == stats.drops_len + stats.drops_stale + stats.complete_frames

\* C37: in every reachable state drops_len + drops_stale + complete_frames
\* <= rx_frames; each receiver_handle_packet call raises rx_frames by one
\* and at most one of drops_len, drops_stale and complete_frames by one,
\* never lowering any of them.
C37_PacketAccounting ==
    /\ Outcomes(receiver.stats) <= receiver.stats.rx_frames
    /\ \A pkt \in Packets :
          \A after \in {Handle(receiver, pkt).stats} :
              /\ after.rx_frames = receiver.stats.rx_frames + 1
              /\ after.drops_len >= receiver.stats.drops_len
              /\ after.drops_stale >= receiver.stats.drops_stale
              /\ after.complete_frames >= receiver.stats.complete_frames
              /\ Outcomes(after) - Outcomes(receiver.stats) \in {0, 1}

\* since the last drain one packet was dropped as stale and one as malformed
C37_Witness ==
    /\ receiver.stats.rx_frames = 2
    /\ receiver.stats.drops_stale = 1
    /\ receiver.stats.drops_len = 1


(***************************************************************************)
(* C38: the startup blackout happens once                                  *)
(***************************************************************************)
\* C38: once driver_ready_for_frames() has returned true it returns true at
\* every later time, for every value of the 32-bit millisecond clock, also
\* after the clock has wrapped around 2^32 (a delay of 0xFFFFFFFF ms is -1
\* in the signed representation).
C38_BlackoutOnce ==
    driver_ready_for_frames(hal.simulated_time_ms, led_driver.startup_time_ms)
        => \A d \in LaterDelays :
               driver_ready_for_frames(Add32(hal.simulated_time_ms, d),
                                       led_driver.startup_time_ms)


(***************************************************************************)
(* C39: every completion publishes                                         *)
(***************************************************************************)
\* C39: whenever a receiver_handle_packet call counts a completion, the same
\* call leaves the ready-frame pointer on the slot that took the packet's
\* run, now free with mask 0, and last_applied_frame_id at the packet's frame
\* id; a call that counts no completion leaves the pointer as it was; and
\* the newness check at completion accepts every frame id the staleness gate
\* lets through.
C39_CompletionPublishes ==
    /\ \A f \in FrameIds \cup {3, 2147483647, -2147483647 - 1} :
          ~IsStale(receiver, f) => PublishAllowed(receiver, f)
    /\ \A pkt \in Packets :
          \A after \in {Handle(receiver, pkt)} :
              IF after.stats.complete_frames = receiver.stats.complete_frames + 1
              THEN /\ after.complete_frame # NULL
                   /\ after.last_applied_frame_id = PktFrame(pkt)
                   /\ ~after.slots[after.complete_frame].in_use
                   /\ after.slots[after.complete_frame].received_mask = 0
                   /\ after.slots[after.complete_frame].frame_id = PktFrame(pkt)
                   /\ Region(after.slots[after.complete_frame].rgb_data, pkt.run_index)
                         = PktRgb(pkt)
              ELSE /\ after.stats.complete_frames = receiver.stats.complete_frames
                   /\ after.complete_frame = receiver.complete_frame
                   /\ after.last_applied_frame_id \in {receiver.last_applied_frame_id, 0}

\* the second packet of frame 0xFFFFFFFF completed it and published it
C39_Witness ==
    /\ receiver.stats.complete_frames = 1
    /\ receiver.stats.rx_frames = 2
    /\ receiver.stats.applied_frames = 0
    /\ receiver.complete_frame # NULL
    /\ receiver.last_applied_frame_id = -1
    /\ ready # NONE
    /\ ready.frame_id = -1


(***************************************************************************)
(* C40: in-use slots are partial assemblies                                *)
(***************************************************************************)
\* the bit mask with one bit per run, from the number of runs
AllRunsMask == 2 ^ RUN_COUNT - 1

ProperPartial(r) ==
    /\ \A i \in DOMAIN r.slots :
          r.slots[i].in_use => /\ r.slots[i].received_mask # 0
                               /\ r.slots[i].received_mask # AllRunsMask
    /\ \A i, j \in DOMAIN r.slots :
          (i # j /\ r.slots[i].in_use /\ r.slots[j].in_use)
              => r.slots[i].frame_id # r.slots[j].frame_id

\* C40: at the return of every receiver_handle_packet call every slot in
\* use has a received_mask that is neither 0 nor EXPECTED_MASK, the slots in
\* use have pairwise distinct frame ids, and the slot of a frame completed
\* by the call is left not in use with mask 0.
C40_ProperPartialSlots ==
    /\ EXPECTED_MASK = AllRunsMask
    /\ ProperPartial(receiver)
    /\ \A pkt \in Packets :
          \A after \in {Handle(receiver, pkt)} :
              /\ ProperPartial(after)
              /\ after.stats.complete_frames > receiver.stats.complete_frames
                    => \A i \in DOMAIN after.slots :
                           after.slots[i].frame_id = PktFrame(pkt)
                               => /\ ~after.slots[i].in_use
                                  /\ after.slots[i].received_mask = 0

\* both slots hold a partial frame, one with run 0 and one with run 1
C40_Witness ==
    /\ receiver.slots[0].in_use
    /\ receiver.slots[1].in_use
    /\ receiver.slots[0].received_mask = 1
    /\ receiver.slots[1].received_mask = 2
    /\ receiver.stats.complete_frames = 0

====
